---- MODULE Spec2Model ----
(***************************************************************************)
(* The request-dispatch core of cs2-price-database:                        *)
(*   steam_api.py      SteamMarketAPIClient (rate window, cache, retries)  *)
(*   proxy_manager.py  ProxyManager (relay pool, health, semaphore)        *)
(* One asyncio event loop runs everything: a coroutine runs without        *)
(* interruption from one await that suspends to the next, so every action  *)
(* below is one such run.  Time is the wall clock in whole seconds.        *)
(***************************************************************************)
EXTENDS Integers, Sequences, FiniteSets, TLC

VARIABLES
    now,                 \* the wall clock (time.time() / datetime.now())
    session,             \* SteamMarketAPIClient.session: None or "open"
    cache,               \* SteamMarketAPIClient.cache: key -> entry or NoEntry
    rate_limit,          \* SteamMarketAPIClient.rate_limit (STEAM_API_RATE_LIMIT)
    rate_window,         \* SteamMarketAPIClient.rate_window (STEAM_API_RATE_WINDOW)
    request_timestamps,  \* SteamMarketAPIClient.request_timestamps
    pm,                  \* the process-wide ProxyManager object
    probe,               \* relay -> state of its test_proxy task in the running pass
    call,                \* caller -> the frame of its get_item_price call
    started,             \* number of get_item_price calls begun so far
    passes,              \* number of health passes begun so far
    tripped,             \* relay -> marked unhealthy by the threshold and not probed ok since
    line,                \* the relay line handed to _parse_proxy_string
    parsed,              \* what _parse_proxy_string returned for it
    batch,               \* the frame of a get_multiple_prices call
    stop,                \* the stop_health_monitoring calls and what they leave behind
    collector            \* PriceCollector: its stats and its collect_price_for_variant call

vars == <<now, session, cache, rate_limit, rate_window, request_timestamps,
          pm, probe, call, started, passes, tripped, line, parsed, batch, stop, collector>>

\* The variables of the parser, of the batch call, of the stop calls and of the
\* price collector, which
\* the actions of the dispatcher and of the pool leave alone.
others == <<line, parsed, batch, stop, collector>>

----------------------------------------------------------------------------
(* Bounds of the model *)

MaxCalls == 2
MaxPasses == 1
MaxCallsSlots == 2
MaxTimeSlots == 5
MaxCallsOne == 1
MaxBatch == 2
MaxEnters == 2
MaxCallsPool == 1
MaxFailureCount == 3
MaxLimit == 3
MaxCallsMiss == 3
MaxCallsWait == 2
MaxStarts == 3
MaxCallsCollect == 3
MaxTimeWait == 15
MaxSuccessCount == 1
MaxCallsUnlimited == 3
MaxTimeUnlimited == 5
MaxCallsLoad == 2
MaxCallsCache == 3
MaxTimeCache == 320
MaxCallsRate == 3
MaxTimeRate == 2
MaxCallsRetry == 2
MaxTimeRetry == 5
MaxTimeCall == 5

(* Program constants *)

max_retries_four == 3 + 1

max_retries == 3
backoff_time == 5
cache_ttl == 300
max_failures == 3

None == "None"
\* Python's None where a JSON body is expected, and a key that is not in the cache.
NoData == [success |-> FALSE, lowest_price |-> -1]
\* `stored` is history: the moment the entry was written.
NoEntry == [data |-> NoData, timestamp |-> -1, stored |-> -1]

Callers == {"c1", "c2"}
Relays == {"r1", "r2"}
Items == {"AK-47", "AWP"}
Keys == {<<i, 1>> : i \in Items}

\* JSON bodies of a 200 response (priceoverview).
Payloads == {[success |-> TRUE, lowest_price |-> 1],
             [success |-> TRUE, lowest_price |-> 2],
             [success |-> FALSE, lowest_price |-> 0]}

\* What one session.get attempt can come back with: an HTTP status, or an
\* exception raised by session.get or (for a 200 whose body is not JSON) by
\* response.json().
ProxyStatuses == {"403", "407", "502", "503"}
Statuses == {"200", "429", "500", "404", "504"} \cup ProxyStatuses
Exceptions == {"TimeoutError", "ClientProxyConnectionError", "Exception",
               "200:ContentTypeError"}
Outcomes == Statuses \cup Exceptions

\* No string (None), as a string of the parser's model.
NoStr == <<"None">>

\* _parse_proxy_string has returned nothing (yet).
NoProxy == [host |-> NoStr, port |-> -1, username |-> NoStr, password |-> NoStr,
            protocol |-> NoStr]

\* The clients whose __aexit__ calls stop_health_monitoring.
Stoppers == {"s1", "s2"}

\* No stop_health_monitoring call has been made.  `orphan` is the state of a
\* health_check_loop task that proxy_manager._health_check_task no longer
\* refers to (None if there is none); `enters` counts the __aenter__ calls.
IdleStop ==
    [pc |-> [s \in Stoppers |-> "idle"], orphan |-> None, enters |-> 0,
     \* the session of each client that leaves: "new", "open" or "closed"
     open |-> [s \in Stoppers |-> "new"]]

\* No get_multiple_prices call has been made.
\* `asked` and `returns` are history: the items whose fetch has begun and what
\* each fetch came back with.
IdleBatch == [pc |-> "idle", names |-> <<>>, i |-> 0,
              results |-> [it \in Items |-> NoData],
              asked |-> <<>>, returns |-> <<>>]

\* collect_price_for_variant returned None, or has not returned.
NoRecord == [usd |-> -1, raw_data |-> NoData]

\* A PriceCollector whose collect_price_for_variant has not been called: its
\* stats (collect_prices.py lines 70-77) and the frame of the call; `got` is
\* what get_item_price came back with.
IdleCollector ==
    [pc |-> "idle", result |-> NoRecord, got |-> "none",
     stats |-> [successful_requests |-> 0, failed_requests |-> 0]]

Min(S) == CHOOSE x \in S : \A y \in S : x <= y
Range(s) == {s[i] : i \in 1..Len(s)}
Perms(S) == {s \in [1..Cardinality(S) -> S] : Range(s) = S}

----------------------------------------------------------------------------
(* RateLimiter: SteamMarketAPIClient._check_rate_limit *)

\* The list comprehension of lines 75-78.
prune(ts, t, W) == SelectSeq(ts, LAMBDA x : t - x < W)

check_rate_limit_always(ts, t, L, W) ==
    LET kept == prune(ts, t, W) IN
    IF Len(kept) >= L /\ Len(kept) > 0
    THEN LET sleep_time == W - (t - Min(Range(kept)))
         IN [sleep_time |-> IF sleep_time > 0 THEN sleep_time ELSE 0,
             request_timestamps |-> kept]
    ELSE [sleep_time |-> 0, request_timestamps |-> kept]

check_rate_limit_newest(ts, t, L, W) ==
    IF L <= 0 THEN [sleep_time |-> 0, request_timestamps |-> ts]
    ELSE LET kept == prune(ts, t, W) IN
         IF Len(kept) >= L
         THEN LET newest == CHOOSE x \in Range(kept) : \A y \in Range(kept) : y <= x
                  sleep_time == W - (t - newest)
              IN [sleep_time |-> IF sleep_time > 0 THEN sleep_time ELSE 0,
                  request_timestamps |-> kept]
         ELSE [sleep_time |-> 0, request_timestamps |-> kept]

\* Returns the sleep time and the (pruned) window it leaves in request_timestamps.
check_rate_limit(ts, t, L, W) ==
    IF L <= 0 THEN [sleep_time |-> 0, request_timestamps |-> ts]
    ELSE LET kept == prune(ts, t, W) IN
         IF Len(kept) >= L
         THEN LET oldest_request == Min(Range(kept))
                  sleep_time == W - (t - oldest_request)
              IN [sleep_time |-> IF sleep_time > 0 THEN sleep_time ELSE 0,
                  request_timestamps |-> kept]
         ELSE [sleep_time |-> 0, request_timestamps |-> kept]

----------------------------------------------------------------------------
(* RelayPool: ProxyManager *)

healthy_proxies(p) == SelectSeq(p.proxies, LAMBDA r : p.is_healthy[r])

get_current_proxy_any(p) ==
    IF ~p.use_proxies \/ Len(p.proxies) = 0 THEN [proxy |-> None, pm |-> p]
    ELSE LET i == IF p.current_proxy_index >= Len(p.proxies) THEN 0
                  ELSE p.current_proxy_index
         IN [proxy |-> p.proxies[i + 1],
             pm |-> [p EXCEPT !.current_proxy_index = i]]

\* Returns the relay (or None) and the manager, whose index the call may reset.
get_current_proxy(p) ==
    IF ~p.use_proxies \/ Len(p.proxies) = 0 THEN [proxy |-> None, pm |-> p]
    ELSE LET hp == healthy_proxies(p) IN
         IF Len(hp) = 0 THEN [proxy |-> None, pm |-> p]
         ELSE LET i == IF p.current_proxy_index >= Len(hp) THEN 0
                       ELSE p.current_proxy_index
              IN [proxy |-> hp[i + 1],
                  pm |-> [p EXCEPT !.current_proxy_index = i]]

rotate_proxy_all(p) ==
    IF ~p.use_proxies \/ Len(p.proxies) = 0 THEN p
    ELSE [p EXCEPT !.current_proxy_index = (p.current_proxy_index + 1) % Len(p.proxies)]

mark_proxy_failed_evict(p, r) ==
    LET n == p.failure_count[r] + 1 IN
    IF n >= max_failures
    THEN [p EXCEPT !.failure_count[r] = n,
                   !.proxies = SelectSeq(@, LAMBDA x : x # r)]
    ELSE [p EXCEPT !.failure_count[r] = n]

rotate_proxy_twice(p) ==
    IF ~p.use_proxies \/ Len(p.proxies) = 0 THEN p
    ELSE LET hp == healthy_proxies(p) IN
         IF Len(hp) <= 1 THEN p
         ELSE get_current_proxy(
                [p EXCEPT !.current_proxy_index =
                              (p.current_proxy_index + 2) % Len(hp)]).pm

rotate_proxy(p) ==
    IF ~p.use_proxies \/ Len(p.proxies) = 0 THEN p
    ELSE LET hp == healthy_proxies(p) IN
         IF Len(hp) <= 1 THEN p
         ELSE get_current_proxy(
                [p EXCEPT !.current_proxy_index =
                              (p.current_proxy_index + 1) % Len(hp)]).pm

mark_proxy_failed_no_rotate(p, r) ==
    LET p1 == [p EXCEPT !.failure_count[r] = @ + 1] IN
    IF p1.failure_count[r] >= max_failures
    THEN [p1 EXCEPT !.is_healthy[r] = FALSE]
    ELSE p1

mark_proxy_failed(p, r) ==
    LET p1 == [p EXCEPT !.failure_count[r] = @ + 1] IN
    IF p1.failure_count[r] >= max_failures
    THEN rotate_proxy([p1 EXCEPT !.is_healthy[r] = FALSE])
    ELSE p1

mark_proxy_success_resurrect(p, r) ==
    [p EXCEPT !.success_count[r] = @ + 1,
              !.is_healthy[r] = TRUE,
              !.failure_count[r] = IF @ > 0 THEN @ - 1 ELSE @]

mark_proxy_success_reset(p, r) ==
    [p EXCEPT !.success_count[r] = @ + 1,
              !.failure_count[r] = 0]

mark_proxy_success(p, r) ==
    [p EXCEPT !.success_count[r] = @ + 1,
              !.failure_count[r] = IF @ > 0 THEN @ - 1 ELSE @]

\* remove_proxy(host, port): the list without that relay.
remove_proxy(p, r) ==
    [p EXCEPT !.proxies = SelectSeq(p.proxies, LAMBDA x : x # r)]

locked_never(p) == FALSE

\* asyncio.Semaphore.locked() of the semaphore get_request_semaphore returns.
locked(p) == p.sem = 0

----------------------------------------------------------------------------
(* RequestDispatcher: SteamMarketAPIClient._rate_limited_request *)

NoReturn == [kind |-> "none", data |-> NoData, wait_time |-> 0]

\* The frame of a caller that is not inside get_item_price.
IdleCall ==
    [pc |-> "idle", key |-> <<"AK-47", 1>>, now0 |-> 0, semaphore |-> FALSE,
     wait_time |-> 0, wake |-> 0, current_proxy |-> None, attempt |-> 0,
     ret |-> NoReturn,
     \* history of this call: whether the session existed when it began, attempts
     \* sent, slots acquired and released, the outcome of each attempt, the
     \* reports made to the pool
     established |-> FALSE, sent |-> 0, acq |-> 0, rel |-> 0,
     hist |-> <<>>, marks |-> <<>>,
     \* the sleep time the rate limiter returned to this call
     slept |-> 0]

Mark(op, r) == [op |-> op, proxy |-> r]

\* proxy_manager.rotate_proxy(); current_proxy = proxy_manager.get_current_proxy()
rotated_any(p) == get_current_proxy_any(rotate_proxy(p))

rotated(p) == get_current_proxy(rotate_proxy(p))

\* The handling shared by status 429, the relay statuses, a timeout and a relay
\* connection error: with a relay, report its failure and, if attempts remain,
\* rotate and retry; otherwise fall through to `last`.
fail_then_retry_same(p, cur, attempt, last) ==
    IF cur # None
    THEN LET p1 == mark_proxy_failed(p, cur) IN
         [pm |-> p1, proxy |-> cur,
          disp |-> IF attempt < max_retries - 1 THEN "continue" ELSE last,
          data |-> NoData, marks |-> <<Mark("failed", cur)>>]
    ELSE [pm |-> p, proxy |-> cur, disp |-> last, data |-> NoData, marks |-> <<>>]

fail_then_retry(p, cur, attempt, last) ==
    IF cur # None
    THEN LET p1 == mark_proxy_failed(p, cur) IN
         IF attempt < max_retries - 1
         THEN LET g == rotated(p1) IN
              [pm |-> g.pm, proxy |-> g.proxy, disp |-> "continue",
               data |-> NoData, marks |-> <<Mark("failed", cur)>>]
         ELSE [pm |-> p1, proxy |-> cur, disp |-> last,
               data |-> NoData, marks |-> <<Mark("failed", cur)>>]
    ELSE [pm |-> p, proxy |-> cur, disp |-> last, data |-> NoData, marks |-> <<>>]

on_200_silent(p, cur, body) ==
    [pm |-> p, proxy |-> cur, disp |-> "return", data |-> body, marks |-> <<>>]

on_200(p, cur, body) ==
    IF cur # None
    THEN [pm |-> mark_proxy_success(p, cur), proxy |-> cur, disp |-> "return",
          data |-> body, marks |-> <<Mark("success", cur)>>]
    ELSE [pm |-> p, proxy |-> cur, disp |-> "return", data |-> body, marks |-> <<>>]

on_429(p, cur, attempt) == fail_then_retry(p, cur, attempt, "backoff")

on_500_penalise(p, cur) ==
    [pm |-> IF cur # None THEN mark_proxy_failed(p, cur) ELSE p,
     proxy |-> cur, disp |-> "return", data |-> NoData,
     marks |-> IF cur # None THEN <<Mark("failed", cur)>> ELSE <<>>]

on_500(p, cur) ==
    [pm |-> p, proxy |-> cur, disp |-> "return", data |-> NoData, marks |-> <<>>]

on_other_status(p, cur, attempt, status) ==
    IF cur # None /\ status \in ProxyStatuses
    THEN fail_then_retry(p, cur, attempt, "return")
    ELSE [pm |-> p, proxy |-> cur, disp |-> "return", data |-> NoData, marks |-> <<>>]

on_timeout(p, cur, attempt) == fail_then_retry(p, cur, attempt, "return")

on_proxy_error(p, cur, attempt) == fail_then_retry(p, cur, attempt, "return")

on_exception_raise(p, cur, attempt) ==
    [pm |-> p, proxy |-> cur, disp |-> "raise", data |-> NoData, marks |-> <<>>]

on_exception(p, cur, attempt) ==
    IF cur # None /\ attempt < max_retries - 1
    THEN LET g == rotated(mark_proxy_failed(p, cur)) IN
         [pm |-> g.pm, proxy |-> g.proxy, disp |-> "continue",
          data |-> NoData, marks |-> <<Mark("failed", cur)>>]
    ELSE [pm |-> p, proxy |-> cur, disp |-> "return", data |-> NoData, marks |-> <<>>]

\* `for attempt in range(max_retries)`: whether `continue` starts another
\* iteration; if not, line 216 returns None.
next_iteration(attempt) == attempt + 1 < max_retries

\* One iteration of the retry loop once session.get has come back with outcome o
\* (and, for a 200, with `body`): what it reports to the pool, the relay it goes
\* on with, and whether it returns, retries or backs off.
handle_response(p, cur, attempt, o, body) ==
    CASE o = "200" -> on_200(p, cur, body)
      [] o = "429" -> on_429(p, cur, attempt)
      [] o = "500" -> on_500(p, cur)
      [] o \in Statuses \ {"200", "429", "500"} -> on_other_status(p, cur, attempt, o)
      [] o = "TimeoutError" -> on_timeout(p, cur, attempt)
      [] o = "ClientProxyConnectionError" -> on_proxy_error(p, cur, attempt)
      [] OTHER -> on_exception(p, cur, attempt)

\* Lines 114-136 for attempt 0: select the relay, record the timestamp, send.
first_attempt(k, p, ts, t) ==
    LET g == get_current_proxy(p) IN
    [call |-> [k EXCEPT !.pc = "inflight", !.current_proxy = g.proxy,
                        !.attempt = 0, !.sent = @ + 1],
     pm |-> g.pm,
     request_timestamps |-> Append(ts, t)]

\* Lines 104-136: from the top of the try block to the first await that suspends.
enter_try(k, p, ts, t, L, W) ==
    LET rl == check_rate_limit(ts, t, L, W) IN
    IF rl.sleep_time > 0
    THEN [call |-> [k EXCEPT !.pc = "rate_sleep", !.wait_time = rl.sleep_time,
                             !.wake = t + rl.sleep_time,
                             !.slept = rl.sleep_time],
          pm |-> p,
          request_timestamps |-> rl.request_timestamps]
    ELSE first_attempt(k, p, rl.request_timestamps, t)

\* Lines 91-93: `if not self.session: raise RuntimeError`.
no_session_unchecked(ses) == FALSE

no_session(ses) == ses = None

\* Lines 95-102: the slot is taken iff relays are enabled when the call starts.
wants_slot(p) == p.use_proxies

acquire(k, p) ==
    [call |-> [k EXCEPT !.semaphore = TRUE, !.acq = @ + 1],
     pm |-> [p EXCEPT !.sem = @ - 1]]

release_if_enabled(k, p) ==
    IF p.use_proxies THEN [p EXCEPT !.sem = @ + 1] ELSE p

\* The finally block, lines 218-221.
release(k, p) ==
    IF k.semaphore THEN [p EXCEPT !.sem = @ + 1] ELSE p

returned_rate_only(k, data) ==
    IF data.success
    THEN [kind |-> "data", data |-> data, wait_time |-> k.slept]
    ELSE [kind |-> "absent", data |-> NoData, wait_time |-> k.slept]

\* get_item_price, lines 254-265, on the (data, wait_time) that
\* _rate_limited_request returned: the payload is cached and returned iff it
\* reports success.
returned(k, data) ==
    IF data.success
    THEN [kind |-> "data", data |-> data, wait_time |-> k.wait_time]
    ELSE [kind |-> "absent", data |-> NoData, wait_time |-> k.wait_time]

cache_put_any(ch, k, data, t) ==
    [ch EXCEPT ![k.key] = [data |-> data, timestamp |-> k.now0, stored |-> t]]

cache_put_drop(ch, k, data, t) ==
    IF data.success
    THEN [ch EXCEPT ![k.key] = [data |-> data, timestamp |-> k.now0, stored |-> t]]
    ELSE [ch EXCEPT ![k.key] = NoEntry]

cache_put(ch, k, data, t) ==
    IF data.success
    THEN [ch EXCEPT ![k.key] = [data |-> data, timestamp |-> k.now0, stored |-> t]]
    ELSE ch

\* get_item_price, lines 251-269, on an exception that left _rate_limited_request:
\* the handler of line 267 turns three classes into (None, 0.0), any other
\* exception reaches the caller.
escaped(exc) ==
    IF exc \in {"ClientError", "ConnectionError", "ValueError"}
    THEN [kind |-> "absent", data |-> NoData, wait_time |-> 0]
    ELSE [kind |-> exc, data |-> NoData, wait_time |-> 0]

\* get_item_price, lines 238-242.
cache_hit(ch, key, t) == ch[key] # NoEntry /\ t - ch[key].timestamp < cache_ttl

\* Relays that a step marked unhealthy stay tripped until a probe of them passes.
Trip(p, p2) == [r \in Relays |-> tripped[r] \/ (p.is_healthy[r] /\ ~p2.is_healthy[r])]

----------------------------------------------------------------------------
(* Actions of a caller *)

\* _rate_limited_request leaves through return: finally, then get_item_price's tail.
Leave(c, k, p, data) ==
    LET p2 == release(k, p) IN
    /\ pm' = p2
    /\ cache' = cache_put(cache, k, data, now)
    /\ call' = [call EXCEPT ![c] = [k EXCEPT !.pc = "done",
                                            !.rel = @ + (p2.sem - p.sem),
                                            !.ret = returned(k, data)]]

\* A caller calls get_item_price(item, currency) and runs to its first suspension.
get_item_price(c, key, max) ==
    /\ call[c].pc \in {"idle", "done"}
    /\ started < max
    /\ started' = started + 1
    /\ LET k0 == [IdleCall EXCEPT !.key = key, !.now0 = now,
                                  !.established = (session # None)] IN
       IF cache_hit(cache, key, now)
       THEN /\ call' = [call EXCEPT ![c] =
                          [k0 EXCEPT !.pc = "done",
                                     !.ret = [kind |-> "data", data |-> cache[key].data,
                                              wait_time |-> 0]]]
            /\ UNCHANGED <<pm, request_timestamps>>
       ELSE IF no_session(session)
       THEN /\ call' = [call EXCEPT ![c] =
                          [k0 EXCEPT !.pc = "done",
                                     !.ret = escaped("RuntimeError")]]
            /\ UNCHANGED <<pm, request_timestamps>>
       ELSE IF wants_slot(pm) /\ locked(pm)
       THEN /\ call' = [call EXCEPT ![c] = [k0 EXCEPT !.pc = "wait_sem"]]
            /\ UNCHANGED <<pm, request_timestamps>>
       ELSE LET a == IF wants_slot(pm) THEN acquire(k0, pm) ELSE [call |-> k0, pm |-> pm]
                e == enter_try(a.call, a.pm, request_timestamps, now,
                               rate_limit, rate_window)
            IN /\ call' = [call EXCEPT ![c] = e.call]
               /\ pm' = e.pm
               /\ request_timestamps' = e.request_timestamps
    /\ UNCHANGED <<now, session, cache, rate_limit, rate_window, probe, passes, tripped>>

Begin(c, key, max) == get_item_price(c, key, max) /\ UNCHANGED others

\* await semaphore.acquire() returns for a caller that had to wait.
AcquireSlot(c) ==
    /\ call[c].pc = "wait_sem"
    /\ ~locked(pm)
    /\ LET a == acquire(call[c], pm)
           e == enter_try(a.call, a.pm, request_timestamps, now, rate_limit, rate_window)
       IN /\ call' = [call EXCEPT ![c] = e.call]
          /\ pm' = e.pm
          /\ request_timestamps' = e.request_timestamps
    /\ UNCHANGED <<now, session, cache, rate_limit, rate_window, probe, started,
                   passes, tripped>>
    /\ UNCHANGED others

\* await asyncio.sleep(sleep_time) of line 112 returns.
RateWake(c) ==
    /\ call[c].pc = "rate_sleep"
    /\ now >= call[c].wake
    /\ LET e == first_attempt(call[c], pm, request_timestamps, now)
       IN /\ call' = [call EXCEPT ![c] = e.call]
          /\ pm' = e.pm
          /\ request_timestamps' = e.request_timestamps
    /\ UNCHANGED <<now, session, cache, rate_limit, rate_window, probe, started,
                   passes, tripped>>
    /\ UNCHANGED others

\* session.get of the attempt in flight comes back with outcome o (body: the
\* JSON of a 200): the rest of this loop iteration and, on a retry, the next
\* iteration up to its session.get.
Respond(c, o, body) ==
    /\ call[c].pc = "inflight"
    /\ LET k == call[c]
           h == handle_response(pm, k.current_proxy, k.attempt, o, body)
           k1 == [k EXCEPT !.current_proxy = h.proxy,
                           !.hist = Append(@, [proxy |-> k.current_proxy, outcome |-> o,
                                               body |-> IF o = "200" THEN body ELSE NoData]),
                           !.marks = @ \o h.marks]
       IN /\ tripped' = Trip(pm, h.pm)
          /\ CASE h.disp = "continue" /\ next_iteration(k.attempt) ->
                    /\ call' = [call EXCEPT ![c] = [k1 EXCEPT !.attempt = @ + 1,
                                                              !.sent = @ + 1]]
                    /\ request_timestamps' = Append(request_timestamps, now)
                    /\ pm' = h.pm
                    /\ UNCHANGED cache
               [] h.disp = "backoff" ->
                    /\ call' = [call EXCEPT ![c] = [k1 EXCEPT !.pc = "backoff",
                                                              !.wait_time = @ + backoff_time,
                                                              !.wake = now + backoff_time]]
                    /\ pm' = h.pm
                    /\ UNCHANGED <<cache, request_timestamps>>
               [] h.disp = "raise" ->
                    /\ call' = [call EXCEPT ![c] =
                                  [k1 EXCEPT !.pc = "done",
                                             !.rel = @ + (release(k, h.pm).sem - h.pm.sem),
                                             !.ret = escaped(o)]]
                    /\ pm' = release(k, h.pm)
                    /\ UNCHANGED <<cache, request_timestamps>>
               [] OTHER ->
                    /\ Leave(c, k1, h.pm, h.data)
                    /\ UNCHANGED request_timestamps
    /\ UNCHANGED <<now, session, rate_limit, rate_window, probe, started, passes>>
    /\ UNCHANGED others

\* await asyncio.sleep(backoff_time) of line 163 returns: return None, wait_time.
BackoffWake(c) ==
    /\ call[c].pc = "backoff"
    /\ now >= call[c].wake
    /\ Leave(c, call[c], pm, NoData)
    /\ UNCHANGED <<now, session, rate_limit, rate_window, request_timestamps, probe,
                   started, passes, tripped>>
    /\ UNCHANGED others

\* The caller's task is cancelled while the call is suspended: CancelledError is
\* no Exception, so no handler of the retry loop catches it; inside the try block
\* the finally block runs, at `await semaphore.acquire()` nothing does.
Cancel(c) ==
    /\ call[c].pc \in {"wait_sem", "rate_sleep", "inflight", "backoff"}
    /\ LET k == call[c]
           p2 == IF k.pc = "wait_sem" THEN pm ELSE release(k, pm)
       IN /\ pm' = p2
          /\ call' = [call EXCEPT ![c] = [k EXCEPT !.pc = "done",
                                                  !.rel = @ + (p2.sem - pm.sem),
                                                  !.ret = escaped("CancelledError")]]
    /\ UNCHANGED <<now, session, cache, rate_limit, rate_window, request_timestamps,
                   probe, started, passes, tripped>>
    /\ UNCHANGED others

\* The clock advances by d seconds, up to `max`.
Tick(d, max) ==
    /\ now + d <= max
    /\ now' = now + d
    /\ UNCHANGED <<session, cache, rate_limit, rate_window, request_timestamps,
                   pm, probe, call, started, passes, tripped>>
    /\ UNCHANGED others

----------------------------------------------------------------------------
(* HealthMonitor: the health_check_loop task and the probes of a pass *)

\* health_check_all_proxies, lines 399-406: one test_proxy task per known relay.
\* The loop's interval sleep is not timed: the pass may begin at any moment.
PassStart ==
    /\ pm.health_check_task = "sleep"
    /\ passes < MaxPasses
    /\ passes' = passes + 1
    /\ IF ~pm.use_proxies \/ Len(pm.proxies) = 0
       THEN UNCHANGED <<pm, probe>>
       ELSE /\ pm' = [pm EXCEPT !.health_check_task = "pass"]
            /\ probe' = [r \in Relays |->
                            IF r \in Range(pm.proxies) THEN "inflight" ELSE "idle"]
    /\ UNCHANGED <<now, session, cache, rate_limit, rate_window, request_timestamps,
                   call, started, tripped>>
    /\ UNCHANGED others

\* test_proxy, lines 383-395, once its session.get has come back.
test_proxy(p, r, ok) ==
    IF ok THEN mark_proxy_success(p, r) ELSE mark_proxy_failed(p, r)

ProbeDone(r, ok) ==
    /\ probe[r] = "inflight"
    /\ pm' = test_proxy(pm, r, ok)
    /\ probe' = [probe EXCEPT ![r] = IF ok THEN "passed" ELSE "failed"]
    /\ tripped' = [x \in Relays |->
                     IF x = r /\ ok THEN FALSE ELSE Trip(pm, pm')[x]]
    /\ UNCHANGED <<now, session, cache, rate_limit, rate_window, request_timestamps,
                   call, started, passes>>
    /\ UNCHANGED others

\* health_check_all_proxies, lines 406-415, once gather has every result; the
\* loop then sleeps again.
PassEnd ==
    /\ pm.health_check_task = "pass"
    /\ \A r \in Relays : probe[r] # "inflight"
    /\ LET g == get_current_proxy(pm)
           p2 == IF g.proxy # None /\ ~g.pm.is_healthy[g.proxy]
                 THEN rotate_proxy(g.pm) ELSE g.pm
       IN pm' = [p2 EXCEPT !.health_check_task = "sleep"]
    /\ probe' = [r \in Relays |-> "idle"]
    /\ UNCHANGED <<now, session, cache, rate_limit, rate_window, request_timestamps,
                   call, started, passes, tripped>>
    /\ UNCHANGED others

----------------------------------------------------------------------------
(* Entering a client, and the pool's public operations *)

ensure_proxies_loaded_keep(p) ==
    IF p.use_proxies /\ p.proxy_fetch_task = None
    THEN [p EXCEPT !.proxy_fetch_task = "done"] ELSE p

\* ensure_proxies_loaded, lines 131-144, when the fetch task (created here if
\* relays are enabled and there is none yet) has nothing to add to the list.
ensure_proxies_loaded(p) ==
    LET p1 == IF p.use_proxies /\ p.proxy_fetch_task = None
              THEN [p EXCEPT !.proxy_fetch_task = "done"] ELSE p
    IN IF Len(p1.proxies) = 0 /\ p1.use_proxies
       THEN [p1 EXCEPT !.use_proxies = FALSE] ELSE p1

\* start_health_monitoring, lines 419-433.
start_health_monitoring(p) ==
    IF ~p.use_proxies \/ p.health_check_task # None THEN p
    ELSE [p EXCEPT !.health_check_task = "sleep"]

AEnter_no_await ==
    /\ session = None
    /\ session' = "open"
    /\ pm' = start_health_monitoring(
                IF pm.proxy_fetch_task = "testing" THEN pm ELSE ensure_proxies_loaded(pm))
    /\ UNCHANGED <<now, cache, rate_limit, rate_window, request_timestamps, probe,
                   call, started, passes, tripped>>
    /\ UNCHANGED others

\* SteamMarketAPIClient.__aenter__ of the client whose calls are modelled.
AEnter ==
    /\ session = None
    /\ pm.proxy_fetch_task # "testing"
    /\ session' = "open"
    /\ pm' = start_health_monitoring(ensure_proxies_loaded(pm))
    /\ UNCHANGED <<now, cache, rate_limit, rate_window, request_timestamps, probe,
                   call, started, passes, tripped>>
    /\ UNCHANGED others

\* The relay lists a source may hold: sequences of distinct relays.
RelayLists == {<<>>} \cup {<<r>> : r \in Relays} \cup Perms(Relays)

\* random.shuffle(self.proxies): any order of the same relays.
shuffles(seq) == {s \in [1..Len(seq) -> Range(seq)] : Range(s) = Range(seq)}

\* _fetch_proxies_from_github, lines 180-189 and the task's end: a non-empty list
\* is shuffled and enables relays; a list that the filter emptied disables them.
finish_fetch(p, order, filtered) ==
    [p EXCEPT !.proxies = order,
              !.use_proxies = IF Len(order) > 0 THEN TRUE
                              ELSE IF filtered THEN FALSE ELSE @,
              !.proxy_fetch_task = "done"]

\* __aenter__ of the first client, up to the first probe of the bulk filter:
\* ensure_proxies_loaded creates the fetch task, which appends the relays that
\* the source lists (lines 152-167) and, with ENABLE_PROXY_HEALTH_CHECK set,
\* begins _test_and_filter_proxies_sequential; without it the task ends here.
FetchProxies(fetched, health_check) ==
    /\ session = None
    /\ pm.use_proxies
    /\ pm.proxy_fetch_task = None
    /\ Range(fetched) \cap Range(pm.proxies) = {}
    /\ LET p1 == [pm EXCEPT !.proxies = @ \o fetched] IN
       IF Len(p1.proxies) > 0 /\ health_check
       THEN pm' = [p1 EXCEPT !.proxy_fetch_task = "testing",
                             !.tested = 0,
                             !.working_proxies = <<>>]
       ELSE \E order \in shuffles(p1.proxies) : pm' = finish_fetch(p1, order, FALSE)
    /\ UNCHANGED <<now, session, cache, rate_limit, rate_window, request_timestamps,
                   probe, call, started, passes, tripped>>
    /\ UNCHANGED others

test_and_filter_step_keep(p, is_working) ==
    LET r == p.proxies[p.tested + 1] IN
    IF is_working
    THEN [p EXCEPT !.working_proxies = Append(@, r),
                   !.is_healthy[r] = TRUE,
                   !.failure_count[r] = 0,
                   !.success_count[r] = @ + 1,
                   !.tested = @ + 1]
    ELSE [p EXCEPT !.working_proxies = Append(@, r),
                   !.is_healthy[r] = FALSE,
                   !.failure_count[r] = @ + 1,
                   !.tested = @ + 1]

\* One iteration of the filter's loop, lines 214-232, once _test_proxy_health
\* has answered `is_working` for the next relay of the list.
test_and_filter_step(p, is_working) ==
    LET r == p.proxies[p.tested + 1] IN
    IF is_working
    THEN [p EXCEPT !.working_proxies = Append(@, r),
                   !.is_healthy[r] = TRUE,
                   !.failure_count[r] = 0,
                   !.success_count[r] = @ + 1,
                   !.tested = @ + 1]
    ELSE [p EXCEPT !.is_healthy[r] = FALSE,
                   !.failure_count[r] = @ + 1,
                   !.tested = @ + 1]

FilterProbe(is_working) ==
    /\ pm.proxy_fetch_task = "testing"
    /\ pm.tested < Len(pm.proxies)
    /\ pm' = test_and_filter_step(pm, is_working)
    /\ tripped' = [r \in Relays |->
                     IF is_working /\ r = pm.proxies[pm.tested + 1] THEN FALSE
                     ELSE Trip(pm, pm')[r]]
    /\ UNCHANGED <<now, session, cache, rate_limit, rate_window, request_timestamps,
                   probe, call, started, passes>>
    /\ UNCHANGED others

\* The filter's end, lines 234-236, and the end of the fetch task.
FilterEnd ==
    /\ pm.proxy_fetch_task = "testing"
    /\ pm.tested = Len(pm.proxies)
    /\ \E order \in shuffles(pm.working_proxies) :
          pm' = finish_fetch([pm EXCEPT !.working_proxies = <<>>, !.tested = 0],
                             order, TRUE)
    /\ UNCHANGED <<now, session, cache, rate_limit, rate_window, request_timestamps,
                   probe, call, started, passes, tripped>>
    /\ UNCHANGED others

\* __aenter__ of another client of the same process (get_steam_price builds one
\* per call): it shares proxy_manager.
OtherEnter ==
    /\ session = "open"
    /\ pm' = start_health_monitoring(ensure_proxies_loaded(pm))
    /\ pm' # pm
    /\ UNCHANGED <<now, session, cache, rate_limit, rate_window, request_timestamps,
                   probe, call, started, passes, tripped>>
    /\ UNCHANGED others

\* add_proxy, lines 478-485: a new ProxyInfo (healthy, counters 0) is appended.
add_proxy(p, r) ==
    [p EXCEPT !.proxies = Append(@, r),
              !.is_healthy[r] = TRUE,
              !.failure_count[r] = 0,
              !.success_count[r] = 0]

\* proxy_manager.add_proxy(host, port) for a relay that is not in the pool.
AddProxy(r) ==
    /\ r \notin Range(pm.proxies)
    /\ pm' = add_proxy(pm, r)
    /\ tripped' = [tripped EXCEPT ![r] = FALSE]
    /\ UNCHANGED <<now, session, cache, rate_limit, rate_window, request_timestamps,
                   probe, call, started, passes>>
    /\ UNCHANGED others

\* proxy_manager.remove_proxy(host, port)
RemoveProxy(r) ==
    /\ r \in Range(pm.proxies)
    /\ pm' = remove_proxy(pm, r)
    /\ UNCHANGED <<now, session, cache, rate_limit, rate_window, request_timestamps,
                   probe, call, started, passes, tripped>>
    /\ UNCHANGED others

----------------------------------------------------------------------------
(* Initial states and specifications *)

\* The state after `proxy_manager = ProxyManager()` and `SteamMarketAPIClient()`
\* with the configuration drawn from the given sets: `use` is USE_PROXIES, `conc`
\* MAX_CONCURRENT_REQUESTS, `L` and `W` the rate limit and window.  The static
\* relay list is shuffled, so it starts in any order.
InitFrom(uses, concs, Ls, Ws, statics) ==
    /\ now = 0
    /\ session = None
    /\ cache = [k \in Keys |-> NoEntry]
    /\ rate_limit \in Ls
    /\ rate_window \in Ws
    /\ request_timestamps = <<>>
    /\ \E use \in uses, conc \in concs, order \in statics :
         pm = [proxies |-> IF use THEN order ELSE <<>>,
               current_proxy_index |-> 0,
               use_proxies |-> use,
               max_concurrent_requests |-> conc,
               sem |-> conc,
               health_check_task |-> None,
               proxy_fetch_task |-> None,
               tested |-> 0,
               working_proxies |-> <<>>,
               is_healthy |-> [r \in Relays |-> TRUE],
               failure_count |-> [r \in Relays |-> 0],
               success_count |-> [r \in Relays |-> 0]]
    /\ probe = [r \in Relays |-> "idle"]
    /\ call = [c \in Callers |-> IdleCall]
    /\ started = 0
    /\ passes = 0
    /\ tripped = [r \in Relays |-> FALSE]
    /\ line = <<>>
    /\ parsed = NoProxy
    /\ batch = IdleBatch
    /\ stop = IdleStop
    /\ collector = IdleCollector

InitWith(uses, concs, Ls, Ws) == InitFrom(uses, concs, Ls, Ws, Perms(Relays))

MonitorNext ==
    \/ PassStart
    \/ \E r \in Relays, ok \in BOOLEAN : ProbeDone(r, ok)
    \/ PassEnd

OkBody == [success |-> TRUE, lowest_price |-> 1]
Key1 == <<"AK-47", 1>>

\* The relay pool under two concurrent callers and health passes.  The limits
\* are the defaults (20 requests per 60 s, never reached here) with two permits;
\* attempts end in a 200 or in the relay status 403.
Init == InitWith({TRUE}, {2}, {20}, {60})

Next ==
    \/ AEnter
    \/ \E c \in Callers :
          \/ Begin(c, Key1, MaxCalls)
          \/ \E o \in {"200", "403"} : Respond(c, o, OkBody)
    \/ MonitorNext

Spec == Init /\ [][Next]_vars

----------------------------------------------------------------------------
(* Claims about the relay pool (checked under Spec) *)

\* C2: a relay that the failure threshold marked unhealthy is never returned by
\* get_current_proxy until a probe of it has passed, whatever successes
\* ordinary traffic reports for it in between.
C2_TrippedNeverCurrent ==
    \A r \in Relays : tripped[r] => get_current_proxy(pm).proxy # r

\* A tripped relay for which traffic has since reported a success (only
\* mark_proxy_success lowers the streak below the threshold), while the pool
\* still selects some relay.
C2_Witness ==
    \E r \in Relays :
        /\ tripped[r]
        /\ pm.failure_count[r] < max_failures
        /\ pm.success_count[r] > 0
        /\ get_current_proxy(pm).proxy \notin {r, None}

\* C3: in the periodic pass, a probe that succeeds leaves its relay with
\* is_healthy = TRUE and failure_count = 0, also when it was unhealthy before.
C3_ProbeSuccessRestores ==
    [][\A r \in Relays :
          (probe[r] = "inflight" /\ probe'[r] = "passed")
              => (pm'.is_healthy[r] /\ pm'.failure_count[r] = 0)]_vars

----------------------------------------------------------------------------
(* The concurrency gate: two callers, one permit, the exits from the try block  *)
(* (a 200, the status 500, 429 on every attempt and the backoff, cancellation), *)
(* and the relays-enabled flag switched off while calls are in flight (the pool *)
(* is emptied, then another client is entered).                                 *)

InitSlots == InitWith({TRUE}, {1}, {20}, {60})

NextSlots ==
    \/ AEnter
    \/ \E c \in Callers :
          \/ Begin(c, Key1, MaxCallsSlots)
          \/ AcquireSlot(c)
          \/ \E o \in {"200", "500", "429"} : Respond(c, o, OkBody)
          \/ BackoffWake(c)
          \/ Cancel(c)
    \/ \E r \in Relays : RemoveProxy(r)
    \/ OtherEnter
    \/ Tick(backoff_time, MaxTimeSlots)

SpecSlots == InitSlots /\ [][NextSlots]_vars

\* The calls that are inside the try block of _rate_limited_request.
InTry == {c \in Callers : call[c].pc \in {"rate_sleep", "inflight", "backoff"}}

\* C4: a call releases a slot exactly once iff it acquired one, on every exit
\* path and whatever happens to use_proxies meanwhile; so the semaphore's value
\* is its size minus the calls that hold a slot, and all permits are back when
\* no call is in flight.
C4_SlotReleasedOnce ==
    /\ \A c \in Callers :
          LET k == call[c] IN
          /\ k.acq \in {0, 1}
          /\ k.rel \in {0, 1}
          /\ k.pc = "wait_sem" => k.acq = 0 /\ k.rel = 0
          /\ c \in InTry => k.rel = 0
          /\ k.pc = "done" => k.rel = k.acq
    /\ pm.sem = pm.max_concurrent_requests
                   - Cardinality({c \in InTry : call[c].acq = 1})
    /\ InTry = {} => ~locked(pm)

\* A call that took the slot while relays were enabled has returned after they
\* were switched off, and the permit is back.
C4_Witness ==
    \E c \in Callers :
        /\ call[c].pc = "done"
        /\ call[c].acq = 1
        /\ call[c].rel = 1
        /\ ~pm.use_proxies
        /\ InTry = {}
        /\ pm.sem = pm.max_concurrent_requests

\* C5: with relays enabled, never more than max_concurrent_requests calls are
\* between slot acquisition and release.
C5_BoundedConcurrency ==
    pm.use_proxies =>
        Cardinality({c \in InTry : call[c].acq = 1 /\ call[c].rel = 0})
            <= pm.max_concurrent_requests

\* Every permit is taken and another caller is waiting for one.
C5_Witness ==
    /\ pm.use_proxies
    /\ Cardinality({c \in InTry : call[c].acq = 1 /\ call[c].rel = 0})
           = pm.max_concurrent_requests
    /\ \E c \in Callers : call[c].pc = "wait_sem"

----------------------------------------------------------------------------
(* One caller, one call at a time, every outcome of every attempt.  The rate    *)
(* limit is the default; relays are enabled or not.                             *)

InitCall == InitWith({TRUE, FALSE}, {1}, {20}, {60})

NextCall ==
    \/ AEnter
    \/ Begin("c1", Key1, MaxCallsOne)
    \/ \E o \in Outcomes, body \in Payloads : Respond("c1", o, body)
    \/ BackoffWake("c1")
    \/ Tick(backoff_time, MaxTimeCall)

SpecCall == InitCall /\ [][NextCall]_vars

\* C7: a call sends at most 3 attempts, whatever the attempts come back with: the
\* third response never starts a fourth attempt, and every step of a call that
\* holds its slot strictly lowers a measure that starts below 10 and ends at 0
\* when the call has returned, so the call returns after finitely many steps.
C7_AtMostThreeAttempts ==
    /\ [](\A c \in Callers :
            LET k == call[c] IN
            /\ k.sent <= 3
            /\ Len(k.hist) <= 3
            /\ k.pc = "inflight" => k.sent = Len(k.hist) + 1
            /\ Len(k.hist) = 3 => k.pc \in {"done", "backoff"})
    /\ [][LET rank(k) == CASE k.pc = "rate_sleep" -> 8
                          [] k.pc = "inflight" -> 2 * (3 - k.sent) + 3
                          [] k.pc = "backoff" -> 1
                          [] OTHER -> 0
          IN \A c \in Callers :
                 (call[c].pc \in {"rate_sleep", "inflight", "backoff"}
                     /\ call'[c] # call[c])
                     => /\ rank(call'[c]) < rank(call[c])
                        /\ rank(call'[c]) >= 0]_vars

\* Three attempts were sent and the third has come back.
C7_Witness ==
    \E c \in Callers :
        call[c].pc = "done" /\ call[c].sent = 3 /\ Len(call[c].hist) = 3

\* C8: a call begun on an established session returns a pair, (payload, wait)
\* or (None, wait); no outcome of an attempt makes it raise.
C8_NeverRaises ==
    \A c \in Callers :
        (call[c].pc = "done" /\ call[c].established)
            => call[c].ret.kind \in {"data", "absent"}

\* A call whose last attempt raised an exception that is neither a timeout nor a
\* relay connection error has returned (None, wait).
C8_Witness ==
    \E c \in Callers :
        LET k == call[c] IN
        /\ k.pc = "done"
        /\ k.established
        /\ k.hist # <<>>
        /\ k.hist[Len(k.hist)].outcome \in {"Exception", "200:ContentTypeError"}
        /\ k.ret.kind = "absent"

\* C9: a call on a client without a session raises RuntimeError before it takes
\* a slot, records a timestamp or touches a relay counter.
C9_NoSessionFailsHard ==
    /\ \A c \in Callers :
          (call[c].pc = "done" /\ ~call[c].established)
              => /\ call[c].ret.kind = "RuntimeError"
                 /\ call[c].acq = 0
                 /\ call[c].sent = 0
                 /\ call[c].marks = <<>>
    /\ session = None
          => /\ request_timestamps = <<>>
             /\ pm.sem = pm.max_concurrent_requests
             /\ \A r \in Relays : pm.failure_count[r] = 0 /\ pm.success_count[r] = 0
             /\ pm.current_proxy_index = 0

\* A call was made before the session existed.
C9_Witness ==
    \E c \in Callers :
        /\ call[c].pc = "done"
        /\ ~call[c].established
        /\ session = None
        /\ pm.use_proxies

----------------------------------------------------------------------------
(* One caller with relays enabled whose attempts come back with 429 or 200 (any *)
(* payload), under a rate limit of one request per 5 s so that a second call    *)
(* inside the window sleeps first; relays may be removed from the pool while a  *)
(* call is in flight.                                                           *)

InitRetry == InitWith({TRUE}, {1}, {1}, {5})

NextRetry ==
    \/ AEnter
    \/ Begin("c1", Key1, MaxCallsRetry)
    \/ RateWake("c1")
    \/ \E o \in {"200", "429"}, body \in Payloads : Respond("c1", o, body)
    \/ BackoffWake("c1")
    \/ \E r \in Relays : RemoveProxy(r)
    \/ Tick(backoff_time, MaxTimeRetry)

SpecRetry == InitRetry /\ [][NextRetry]_vars

\* The calls C6 is about: returned, attempt 1 came back with 429 and attempt 2
\* with 200.
Retried429Then200(k) ==
    /\ k.pc = "done"
    /\ Len(k.hist) = 2
    /\ k.hist[1].outcome = "429"
    /\ k.hist[2].outcome = "200"

\* C6 as stated: such a call returns the attempt-2 payload, reports one failure
\* against the relay of attempt 1 and one success against the relay of attempt
\* 2, and returns a wait time greater than 0.
C6_Original ==
    \A c \in Callers :
        LET k == call[c] IN
        Retried429Then200(k)
            => /\ k.ret.kind = "data"
               /\ k.ret.data = k.hist[2].body
               /\ k.marks = <<Mark("failed", k.hist[1].proxy),
                              Mark("success", k.hist[2].proxy)>>
               /\ k.ret.wait_time > 0

\* C6 (amended): such a call reports exactly one failure, against the relay of
\* attempt 1, and exactly one success, against the relay of attempt 2 when
\* attempt 2 went through a relay (none when the pool had no healthy relay left
\* and attempt 2 went direct); it returns the attempt-2 payload when that
\* payload reports success and no result otherwise; the wait time it returns is
\* the sleep the rate limiter imposed before attempt 1, which is 0 when the call
\* was admitted at once: the retry after a 429 adds no wait.
C6_RetryAfter429 ==
    \A c \in Callers :
        LET k == call[c] IN
        Retried429Then200(k)
            => /\ k.hist[1].proxy # None
               /\ k.marks = <<Mark("failed", k.hist[1].proxy)>>
                             \o (IF k.hist[2].proxy # None
                                 THEN <<Mark("success", k.hist[2].proxy)>>
                                 ELSE <<>>)
               /\ IF k.hist[2].body.success
                  THEN k.ret.kind = "data" /\ k.ret.data = k.hist[2].body
                  ELSE k.ret.kind = "absent"
               /\ k.ret.wait_time = k.slept

\* Such a call that was admitted at once, went through two different relays and
\* returned the payload with a wait time of 0.
C6_Witness ==
    \E c \in Callers :
        LET k == call[c] IN
        /\ Retried429Then200(k)
        /\ k.hist[2].proxy \notin {None, k.hist[1].proxy}
        /\ k.ret.kind = "data"
        /\ k.slept = 0
        /\ k.ret.wait_time = 0

----------------------------------------------------------------------------
(* The rate limiter under two concurrent callers: a limit of 1 request per 2 s, *)
(* relays enabled or not, attempts that end in a 200 or in the relay status 403 *)
(* (retried when a relay was used), and a clock that advances in steps of 1 s.  *)

InitRate == InitWith({TRUE, FALSE}, {2}, {1}, {2})

NextRate ==
    \/ AEnter
    \/ \E c \in Callers :
          \/ Begin(c, Key1, MaxCallsRate)
          \/ RateWake(c)
          \/ \E o \in {"200", "403"} : Respond(c, o, [success |-> FALSE, lowest_price |-> 0])
    \/ Tick(1, MaxTimeRate)

SpecRate == InitRate /\ [][NextRate]_vars

\* C1: with a rate limit L > 0 and a window of W seconds, no interval [t, t + W)
\* holds more than L of the request-start timestamps recorded in
\* request_timestamps (t ranging over the recorded timestamps, which covers every
\* interval of that length).
C1_WindowBound ==
    rate_limit > 0 =>
        \A t \in Range(request_timestamps) :
            Cardinality({i \in 1..Len(request_timestamps) :
                            /\ t <= request_timestamps[i]
                            /\ request_timestamps[i] < t + rate_window}) <= rate_limit

----------------------------------------------------------------------------
(* The cache under one caller without relays: every attempt comes back with a   *)
(* 200 and any payload, and the clock advances in steps of 20 s (a response may *)
(* take that long: the session's total timeout is 30 s) past the 300 s of the   *)
(* cache's time to live.                                                        *)

InitCache == InitWith({FALSE}, {1}, {20}, {60})

NextCache ==
    \/ AEnter
    \/ Begin("c1", Key1, MaxCallsCache)
    \/ \E body \in Payloads : Respond("c1", "200", body)
    \/ Tick(20, MaxTimeCache)

SpecCache == InitCache /\ [][NextCache]_vars

\* C10: a call for a key made less than the TTL after a value was stored for that
\* key returns that value with a wait time of 0, takes no slot, records no
\* timestamp and sends nothing; a call made once the TTL has elapsed goes to the
\* network although the entry is still in the cache.
C10_CacheRoundTrip ==
    [][(started' = started + 1 /\ cache[Key1] # NoEntry)
          => LET k == call'["c1"] IN
             IF now - cache[Key1].stored < cache_ttl
             THEN /\ k.pc = "done"
                  /\ k.ret = [kind |-> "data", data |-> cache[Key1].data, wait_time |-> 0]
                  /\ k.acq = 0 /\ k.sent = 0
                  /\ request_timestamps' = request_timestamps
                  /\ pm' = pm
             ELSE /\ k.pc \in {"inflight", "rate_sleep"}
                  /\ cache'[Key1] = cache[Key1]]_vars

----------------------------------------------------------------------------
(* More claims about the relay pool (checked under Spec) *)

\* C11: in every state of the pool with at most one healthy relay, rotate_proxy
\* changes nothing (the index included) and get_current_proxy returns the same
\* relay after it as before it; with no healthy relay get_current_proxy
\* returns None.
C11_RotateNoOp ==
    Len(healthy_proxies(pm)) <= 1 =>
        /\ rotate_proxy(pm) = pm
        /\ get_current_proxy(rotate_proxy(pm)).proxy = get_current_proxy(pm).proxy
        /\ Len(healthy_proxies(pm)) = 0 => get_current_proxy(pm).proxy = None

\* One relay has been marked unhealthy by mark_proxy_failed (which then called
\* rotate_proxy), exactly one relay is healthy, and it is the one selected.
C11_Witness ==
    /\ \E r \in Relays : tripped[r] /\ ~pm.is_healthy[r]
    /\ Len(healthy_proxies(pm)) = 1
    /\ get_current_proxy(pm).proxy = healthy_proxies(pm)[1]

----------------------------------------------------------------------------
(* Loading the pool: the first client is entered with relays enabled and a      *)
(* static list that is empty or holds one relay; the source lists any relays,   *)
(* the bulk filter runs or not; then one caller makes calls whose attempts end  *)
(* in a 200 or in the relay status 403.                                         *)

InitLoad == InitFrom({TRUE}, {1}, {20}, {60}, {<<>>, <<"r1">>})

NextLoad ==
    \/ \E fetched \in RelayLists, health_check \in BOOLEAN :
          FetchProxies(fetched, health_check)
    \/ \E is_working \in BOOLEAN : FilterProbe(is_working)
    \/ FilterEnd
    \/ AEnter
    \/ Begin("c1", Key1, MaxCallsLoad)
    \/ \E o \in {"200", "403"} : Respond("c1", o, OkBody)

SpecLoad == InitLoad /\ [][NextLoad]_vars

\* C12: the healthy flag of a relay of the pool goes from true to false only in
\* a step in which its failure count reaches max_failures.
C12_UnhealthyOnlyAtThreshold ==
    [][\A r \in Relays :
          (r \in Range(pm.proxies) /\ pm.is_healthy[r] /\ ~pm'.is_healthy[r])
              => (pm.failure_count[r] < max_failures
                  /\ pm'.failure_count[r] >= max_failures)]_vars

----------------------------------------------------------------------------
(* Claims about the handling of one attempt's outcome (checked under SpecCall) *)

\* The step in which the attempt in flight of caller c comes back with outcome o.
Answered(c, o) ==
    /\ call[c].pc = "inflight"
    /\ Len(call'[c].hist) = Len(call[c].hist) + 1
    /\ call'[c].hist[Len(call'[c].hist)].outcome = o

\* C13 as stated: an attempt that gets a 200 with a parseable payload reports
\* one success against the relay used, stores the payload in the cache under
\* the call's key and returns it.
C13_Original ==
    [][\A c \in Callers :
          Answered(c, "200") =>
              LET k == call[c]
                  body == call'[c].hist[Len(call'[c].hist)].body
              IN /\ call'[c].marks = k.marks \o (IF k.current_proxy # None
                                                 THEN <<Mark("success", k.current_proxy)>>
                                                 ELSE <<>>)
                 /\ cache'[k.key].data = body
                 /\ call'[c].pc = "done"
                 /\ call'[c].ret.kind = "data"
                 /\ call'[c].ret.data = body]_vars

\* C13 (amended): an attempt that gets a 200 with a parseable payload reports
\* exactly one success against the relay used (none when the attempt went
\* direct) and ends the call; if the payload reports success it is stored in the
\* cache under the call's key and returned, otherwise the cache is left as it
\* was and the call returns no result.
C13_SuccessHandling ==
    [][\A c \in Callers :
          Answered(c, "200") =>
              LET k == call[c]
                  body == call'[c].hist[Len(call'[c].hist)].body
                  cur == k.current_proxy
              IN /\ call'[c].marks = k.marks \o (IF cur # None
                                                 THEN <<Mark("success", cur)>>
                                                 ELSE <<>>)
                 /\ cur # None => pm'.success_count[cur] = pm.success_count[cur] + 1
                 /\ \A r \in Relays \ {cur} : pm'.success_count[r] = pm.success_count[r]
                 /\ call'[c].pc = "done"
                 /\ IF body.success
                    THEN /\ cache'[k.key].data = body
                         /\ call'[c].ret.kind = "data"
                         /\ call'[c].ret.data = body
                    ELSE /\ cache' = cache
                         /\ call'[c].ret.kind = "absent"]_vars

\* A call whose second attempt, through a relay, got a 200 with a payload that
\* reports success: the payload is in the cache and was returned, and the relay
\* has one success.
C13_Witness ==
    \E c \in Callers :
        LET k == call[c] IN
        /\ k.pc = "done"
        /\ Len(k.hist) = 2
        /\ k.hist[2].outcome = "200"
        /\ k.hist[2].proxy # None
        /\ k.hist[2].body.success
        /\ cache[k.key].data = k.hist[2].body
        /\ k.ret.kind = "data"
        /\ pm.success_count[k.hist[2].proxy] = 1

\* The step of caller c ends its call with no result, sends no further attempt
\* and leaves the failure counts, health flags and index of the pool as they were.
AbsentNoPenalty(c) ==
    /\ call'[c].pc = "done"
    /\ call'[c].ret.kind = "absent"
    /\ call'[c].sent = call[c].sent
    /\ call'[c].marks = call[c].marks
    /\ pm'.failure_count = pm.failure_count
    /\ pm'.is_healthy = pm.is_healthy
    /\ pm'.current_proxy_index = pm.current_proxy_index

\* C14 as stated: on every status of the 5xx range the call returns absent, does
\* not retry and does not penalize the relay.
C14_Original ==
    [][\A c \in Callers, o \in {"500", "502", "503", "504"} :
          Answered(c, o) => AbsentNoPenalty(c)]_vars

\* C14 (amended): on every status of the 5xx range other than 502 and 503, and on
\* 502 and 503 when the attempt went direct, the call returns absent, does not
\* retry and does not penalize the relay.
C14_ServerErrorNoPenalty ==
    [][\A c \in Callers, o \in {"500", "502", "503", "504"} :
          (Answered(c, o) /\ (o \in {"500", "504"} \/ call[c].current_proxy = None))
              => AbsentNoPenalty(c)]_vars

\* A call whose only attempt went through a relay and got a 500 or a 504: it has
\* returned absent and no relay has a failure.
C14_Witness ==
    \E c \in Callers :
        LET k == call[c] IN
        /\ k.pc = "done"
        /\ k.sent = 1
        /\ Len(k.hist) = 1
        /\ k.hist[1].outcome \in {"500", "504"}
        /\ k.hist[1].proxy # None
        /\ k.ret.kind = "absent"
        /\ \A r \in Relays : pm.failure_count[r] = 0 /\ pm.is_healthy[r]

\* The outcomes the code attributes to the relay of the attempt.
RelayOutcomes == {"TimeoutError", "ClientProxyConnectionError"} \cup ProxyStatuses

\* The step of caller c reports exactly one failure, against relay cur.
OneFailure(c, cur) ==
    /\ call'[c].marks = call[c].marks \o <<Mark("failed", cur)>>
    /\ pm'.failure_count[cur] = pm.failure_count[cur] + 1
    /\ \A r \in Relays \ {cur} : pm'.failure_count[r] = pm.failure_count[r]
    /\ pm'.success_count = pm.success_count

\* The step of caller c sends the next attempt through the pool's selection
\* after a rotation: if cur stays healthy beside another healthy relay the index
\* has advanced by one modulo the number of healthy relays, and the attempt
\* goes direct if no relay is healthy.
RotatedRetry(c, cur) ==
    /\ call'[c].pc = "inflight"
    /\ call'[c].sent = call[c].sent + 1
    /\ call'[c].current_proxy = get_current_proxy(pm').proxy
    /\ (Len(healthy_proxies(pm')) >= 2 /\ pm'.is_healthy[cur])
           => pm'.current_proxy_index
                 = (pm.current_proxy_index + 1) % Len(healthy_proxies(pm'))
    /\ Len(healthy_proxies(pm')) = 0 => call'[c].current_proxy = None

\* C15: an attempt through a relay that ends in a timeout, a relay connection
\* error or status 403/407/502/503 reports exactly one failure against that
\* relay; the first and the second attempt are followed by a rotation and the
\* next attempt, the third by the return of no result.
C15_RelayFailureHandling ==
    [][\A c \in Callers, o \in RelayOutcomes :
          (Answered(c, o) /\ call[c].current_proxy # None)
              => /\ OneFailure(c, call[c].current_proxy)
                 /\ IF call[c].sent < 3
                    THEN RotatedRetry(c, call[c].current_proxy)
                    ELSE /\ call'[c].pc = "done"
                         /\ call'[c].ret.kind = "absent"]_vars

\* A call whose three attempts went through relays and all ended in a
\* relay-attributable outcome: three failures reported, no result returned.
C15_Witness ==
    \E c \in Callers :
        LET k == call[c] IN
        /\ k.pc = "done"
        /\ Len(k.hist) = 3
        /\ \A i \in 1..3 : k.hist[i].outcome \in RelayOutcomes /\ k.hist[i].proxy # None
        /\ k.hist[2].proxy # k.hist[1].proxy
        /\ Len(k.marks) = 3
        /\ k.ret.kind = "absent"

\* C16: an attempt through a relay that fails with any other exception reports
\* one failure against that relay, on the third attempt as on the first two;
\* the first and the second attempt are followed by the next attempt, the third
\* by the return of no result.
C16_UnexpectedFailureReported ==
    [][\A c \in Callers, o \in {"Exception", "200:ContentTypeError"} :
          (Answered(c, o) /\ call[c].current_proxy # None)
              => /\ OneFailure(c, call[c].current_proxy)
                 /\ IF call[c].sent < 3
                    THEN call'[c].pc = "inflight" /\ call'[c].sent = call[c].sent + 1
                    ELSE call'[c].pc = "done" /\ call'[c].ret.kind = "absent"]_vars

\* C17: an attempt that gets a 429, through a relay or direct, is followed by
\* the next attempt with no backoff while attempts remain; only the third 429
\* is followed by the backoff sleep, whose length is added to the wait time the
\* call returns with no result.
C17_BackoffOnlyWhenExhausted ==
    [][\A c \in Callers :
          /\ Answered(c, "429") =>
                IF call[c].sent < 3
                THEN /\ call'[c].pc = "inflight"
                     /\ call'[c].sent = call[c].sent + 1
                     /\ call'[c].wait_time = call[c].wait_time
                ELSE /\ call'[c].pc = "backoff"
                     /\ call'[c].wait_time = call[c].wait_time + backoff_time
                     /\ call'[c].wake = now + backoff_time
          /\ (call[c].pc = "backoff" /\ call'[c].pc = "done") =>
                /\ call'[c].ret.kind = "absent"
                /\ call'[c].ret.wait_time = call[c].wait_time]_vars

----------------------------------------------------------------------------
(* Unlimited mode: a rate limit of 0 or below, two concurrent callers without   *)
(* relays, attempts that end in a 200 or a 429.                                 *)

InitUnlimited == InitWith({FALSE}, {1}, {0, -1}, {60})

NextUnlimited ==
    \/ AEnter
    \/ \E c \in Callers :
          \/ Begin(c, Key1, MaxCallsUnlimited)
          \/ \E o \in {"200", "429"} :
                Respond(c, o, [success |-> FALSE, lowest_price |-> 0])
          \/ BackoffWake(c)
    \/ Tick(backoff_time, MaxTimeUnlimited)

SpecUnlimited == InitUnlimited /\ [][NextUnlimited]_vars

\* C18: with a rate limit of 0 or below, _check_rate_limit returns 0 whatever
\* requests were recorded before, so no call ever sleeps on the limiter.
C18_UnlimitedNeverSleeps ==
    rate_limit <= 0 =>
        /\ check_rate_limit(request_timestamps, now, rate_limit, rate_window).sleep_time = 0
        /\ \A c \in Callers : call[c].pc # "rate_sleep" /\ call[c].slept = 0

\* Three requests have been recorded at the same moment, and a call admitted
\* after the others has returned without a sleep.
C18_Witness ==
    /\ rate_limit <= 0
    /\ Len(request_timestamps) >= 3
    /\ request_timestamps[1] = request_timestamps[3]
    /\ \E c \in Callers :
          /\ call[c].pc = "done"
          /\ call[c].sent = 1
          /\ call[c].slept = 0
          /\ call[c].now0 = request_timestamps[3]

----------------------------------------------------------------------------
(* ProxyManager._parse_proxy_string.  A string is a sequence whose elements    *)
(* are the separator characters ":", "/" and "@" and maximal runs of other     *)
(* characters ("http", "10.0.0.1", "3128").                                     *)

\* The position of the first occurrence of `sub` in s, 0 if there is none.
find(s, sub) ==
    LET at == {i \in 1..(Len(s) - Len(sub) + 1) : SubSeq(s, i, i + Len(sub) - 1) = sub}
    IN IF at = {} THEN 0 ELSE Min(at)

\* The position of the last occurrence of `sub` in s, 0 if there is none.
rfind(s, sub) ==
    LET at == {i \in 1..(Len(s) - Len(sub) + 1) : SubSeq(s, i, i + Len(sub) - 1) = sub}
    IN IF at = {} THEN 0 ELSE CHOOSE i \in at : \A j \in at : j <= i

\* s.split(sep, 1) and s.rsplit(sep, 1) when sep occurs in s.
split1(s, sep) ==
    LET i == find(s, sep) IN <<SubSeq(s, 1, i - 1), SubSeq(s, i + Len(sep), Len(s))>>

rsplit1_first(s, sep) == split1(s, sep)

rsplit1(s, sep) ==
    LET i == rfind(s, sep) IN <<SubSeq(s, 1, i - 1), SubSeq(s, i + Len(sep), Len(s))>>

\* The decimal strings of the model and int() of them; int() of any other
\* string raises ValueError.
DigitStrings == {<<"80">>, <<"3128">>, <<"8080">>}
int(str) == CASE str = <<"80">> -> 80
              [] str = <<"3128">> -> 3128
              [] str = <<"8080">> -> 8080

\* Line 299.
default_port == 8080

\* Lines 270-312; an exception inside (int() of a port that is no number)
\* makes it return None.
parse_proxy_string(proxy_str) ==
    LET has_protocol == find(proxy_str, <<":", "/", "/">>) # 0
        protocol == IF has_protocol THEN split1(proxy_str, <<":", "/", "/">>)[1]
                    ELSE <<"http">>
        rest == IF has_protocol THEN split1(proxy_str, <<":", "/", "/">>)[2]
                ELSE proxy_str
        has_auth == find(rest, <<"@">>) # 0
        auth_part == IF has_auth THEN rsplit1(rest, <<"@">>)[1] ELSE <<>>
        host_part == IF has_auth THEN rsplit1(rest, <<"@">>)[2] ELSE rest
        username == IF ~has_auth THEN NoStr
                    ELSE IF find(auth_part, <<":">>) # 0
                         THEN split1(auth_part, <<":">>)[1] ELSE auth_part
        password == IF ~has_auth THEN NoStr
                    ELSE IF find(auth_part, <<":">>) # 0
                         THEN split1(auth_part, <<":">>)[2] ELSE <<>>
        has_port == find(host_part, <<":">>) # 0
        host == IF has_port THEN rsplit1(host_part, <<":">>)[1] ELSE host_part
        port_str == IF has_port THEN rsplit1(host_part, <<":">>)[2] ELSE <<>>
    IN IF has_port /\ port_str \notin DigitStrings
       THEN NoProxy
       ELSE [host |-> host,
             port |-> IF has_port THEN int(port_str) ELSE default_port,
             username |-> username,
             password |-> password,
             protocol |-> protocol]

\* What a relay line may be written from: an optional protocol, optional
\* credentials (the password may hold ":" and "@"), a host, an optional port.
Written ==
    [protocol : {NoStr, <<"http">>, <<"socks5">>},
     auth : BOOLEAN,
     username : {<<"u">>},
     password : {<<"p">>, <<"p", ":", "q">>, <<"p", "@", "q">>},
     host : {<<"10.0.0.1">>, <<"proxy.example.com">>},
     port : {NoStr} \cup DigitStrings]

\* The line of the grammar [protocol://][user:pass@]host[:port] for w.
format_line(w) ==
    (IF w.protocol = NoStr THEN <<>> ELSE w.protocol \o <<":", "/", "/">>)
    \o (IF w.auth THEN w.username \o <<":">> \o w.password \o <<"@">> ELSE <<>>)
    \o w.host
    \o (IF w.port = NoStr THEN <<>> ELSE <<":">> \o w.port)

\* _load_proxy_config (lines 93-96, 104-108) and _fetch_proxies_from_github
\* (lines 157-164) take the next non-empty line of their source ...
ReadLine(w) ==
    /\ line = <<>>
    /\ line' = format_line(w)
    /\ UNCHANGED <<now, session, cache, rate_limit, rate_window, request_timestamps,
                   pm, probe, call, started, passes, tripped, parsed, batch, stop, collector>>

\* ... and hand it to _parse_proxy_string.
Parse ==
    /\ line # <<>>
    /\ parsed = NoProxy
    /\ parsed' = parse_proxy_string(line)
    /\ UNCHANGED <<now, session, cache, rate_limit, rate_window, request_timestamps,
                   pm, probe, call, started, passes, tripped, line, batch, stop, collector>>

InitParse == InitWith({TRUE}, {1}, {20}, {60})

NextParse ==
    \/ \E w \in Written : ReadLine(w)
    \/ Parse

SpecParse == InitParse /\ [][NextParse]_vars

\* What C19 expects for a line written from w.
Expected(w) ==
    [host |-> w.host,
     port |-> IF w.port = NoStr THEN 8080 ELSE int(w.port),
     username |-> IF w.auth THEN w.username ELSE NoStr,
     password |-> IF w.auth THEN w.password ELSE NoStr,
     protocol |-> IF w.protocol = NoStr THEN <<"http">> ELSE w.protocol]

\* C19: a line of the grammar [protocol://][user:pass@]host[:port] parses to
\* exactly the written protocol, user, password, host and port, with port 8080,
\* protocol http and no credentials for the parts that are missing.
C19_ParseRoundTrip ==
    \A w \in Written :
        line = format_line(w) =>
            /\ parse_proxy_string(line) = Expected(w)
            /\ parsed # NoProxy => parsed = Expected(w)

\* The two lines of the claim have been parsed: "http://u:p@10.0.0.1:3128"
\* gives (http, u, p, 10.0.0.1, 3128), and "10.0.0.1" gives
\* (http, none, none, 10.0.0.1, 8080).
C19_Witness ==
    /\ line = <<"http", ":", "/", "/", "u", ":", "p", "@", "10.0.0.1", ":", "3128">>
    /\ parsed = [host |-> <<"10.0.0.1">>, port |-> 3128, username |-> <<"u">>,
                 password |-> <<"p">>, protocol |-> <<"http">>]
    /\ parse_proxy_string(<<"10.0.0.1">>)
             = [host |-> <<"10.0.0.1">>, port |-> 8080, username |-> NoStr,
                password |-> NoStr, protocol |-> <<"http">>]

----------------------------------------------------------------------------
(* SteamMarketAPIClient.get_multiple_prices, run by caller "c1" *)

\* The item lists a batch may be given: up to MaxBatch items, repeats allowed.
BatchInputs == UNION {[1..n -> Items] : n \in 0..MaxBatch}

\* Lines 286-288: the loop calls get_item_price for item i of the list and runs
\* to that call's first suspension.
fetch_item(b, i) ==
    /\ get_item_price("c1", <<b.names[i], 1>>, MaxBatch)
    /\ batch' = [b EXCEPT !.pc = "fetching", !.i = i,
                          !.asked = Append(@, b.names[i])]

\* get_multiple_prices(names) is called: lines 282-288, or line 300 at once for
\* an empty list.
BatchStart(names) ==
    /\ batch.pc = "idle"
    /\ LET b == [IdleBatch EXCEPT !.names = names] IN
       IF Len(names) = 0
       THEN /\ batch' = [b EXCEPT !.pc = "returned"]
            /\ UNCHANGED <<now, session, cache, rate_limit, rate_window,
                           request_timestamps, pm, probe, call, started, passes,
                           tripped>>
       ELSE fetch_item(b, 1)
    /\ UNCHANGED <<line, parsed, stop, collector>>

collect_abort(b, ret) ==
    LET b1 == [b EXCEPT !.returns = Append(@, ret)] IN
    IF ret.kind = "data"
    THEN [b1 EXCEPT !.results[b.names[b.i]] = ret.data, !.pc = "pacing"]
    ELSE [b1 EXCEPT !.pc = "returned"]

\* Lines 288-294 on what get_item_price came back with: a result is put into
\* the map; an exception that is no ClientError, ConnectionError or ValueError
\* leaves get_multiple_prices.
collect(b, ret) ==
    LET b1 == [b EXCEPT !.returns = Append(@, ret)] IN
    IF ret.kind = "data"
    THEN [b1 EXCEPT !.results[b.names[b.i]] = ret.data, !.pc = "pacing"]
    ELSE IF ret.kind = "absent"
    THEN [b1 EXCEPT !.pc = "pacing"]
    ELSE [b1 EXCEPT !.pc = "raised"]

\* get_item_price has returned to the loop, which goes on to its sleep.
BatchCollect ==
    /\ batch.pc = "fetching"
    /\ call["c1"].pc = "done"
    /\ batch' = collect(batch, call["c1"].ret)
    /\ UNCHANGED <<now, session, cache, rate_limit, rate_window, request_timestamps,
                   pm, probe, call, started, passes, tripped, line, parsed, stop, collector>>

\* await asyncio.sleep(0.1) of line 294 returns: the next item, or line 300.
BatchNext ==
    /\ batch.pc = "pacing"
    /\ IF batch.i = Len(batch.names)
       THEN /\ batch' = [batch EXCEPT !.pc = "returned"]
            /\ UNCHANGED <<now, session, cache, rate_limit, rate_window,
                           request_timestamps, pm, probe, call, started, passes,
                           tripped>>
       ELSE fetch_item(batch, batch.i + 1)
    /\ UNCHANGED <<line, parsed, stop, collector>>

\* One batch without relays; attempts end in a 200 with any payload, in the
\* status 500 or in a timeout.
InitBatch == InitWith({FALSE}, {1}, {20}, {60})

NextBatch ==
    \/ AEnter
    \/ \E names \in BatchInputs : BatchStart(names)
    \/ \E o \in {"200", "500", "TimeoutError"}, body \in Payloads : Respond("c1", o, body)
    \/ BatchCollect
    \/ BatchNext

SpecBatch == InitBatch /\ [][NextBatch]_vars

\* The payload of the last fetch of item `it` that came back with a result,
\* NoData if none did.
LastResult(b, it) ==
    LET at == {j \in 1..Len(b.returns) : b.asked[j] = it /\ b.returns[j].kind = "data"}
    IN IF at = {} THEN NoData ELSE b.returns[CHOOSE j \in at : \A x \in at : x <= j].data

\* C20: a batch has one get_item_price call at a time (each item is asked only
\* after the fetch of the item before it has come back), asks the items in the
\* order of the list, goes on to the next item when a fetch comes back without
\* a result, and returns a map that holds exactly the items whose fetch came
\* back with a result, on a client whose session is established.
C20_BatchSequential ==
    LET b == batch IN
    /\ b.asked = SubSeq(b.names, 1, b.i)
    /\ b.pc = "fetching" => /\ Len(b.returns) = b.i - 1
                            /\ call["c1"].key = <<b.names[b.i], 1>>
    /\ b.pc = "pacing" => Len(b.returns) = b.i /\ call["c1"].pc = "done"
    /\ b.pc # "idle" => started = b.i
    /\ b.pc = "raised" => ~call["c1"].established
    /\ b.pc = "returned" =>
          /\ b.asked = b.names
          /\ Len(b.returns) = Len(b.names)
          /\ \A it \in Items : b.results[it] = LastResult(b, it)

\* A batch of two items has returned: the fetch of the first came back without
\* a result, the fetch of the second with one, which is the only entry of the map.
C20_Witness ==
    /\ batch.pc = "returned"
    /\ Len(batch.names) = 2
    /\ batch.names[1] # batch.names[2]
    /\ batch.returns[1].kind = "absent"
    /\ batch.returns[2].kind = "data"
    /\ batch.results[batch.names[1]] = NoData
    /\ batch.results[batch.names[2]] = batch.returns[2].data

----------------------------------------------------------------------------
(* ProxyManager.stop_health_monitoring, called by __aexit__ of each client *)

Live == {"sleep", "pass"}

\* Lines 437-440 up to the await.  Without a task the call returns at once; a
\* task that is already done is awaited without suspending and line 443 clears
\* the field; otherwise task.cancel() cancels the loop's sleep, or its gather
\* and with it every test_proxy task still in flight, and the call suspends.
StopBegin(s) ==
    /\ stop.pc[s] = "idle"
    /\ IF pm.health_check_task = None
       THEN /\ stop' = [stop EXCEPT !.pc[s] = "returned"]
            /\ UNCHANGED <<pm, probe>>
       ELSE IF pm.health_check_task = "finished"
       THEN /\ stop' = [stop EXCEPT !.pc[s] = "returned"]
            /\ pm' = [pm EXCEPT !.health_check_task = None]
            /\ UNCHANGED probe
       ELSE /\ stop' = [stop EXCEPT !.pc[s] = "awaiting"]
            /\ pm' = [pm EXCEPT !.health_check_task = "cancelling"]
            /\ probe' = [r \in Relays |->
                            IF probe[r] = "inflight" THEN "cancelling" ELSE probe[r]]
    /\ UNCHANGED <<now, session, cache, rate_limit, rate_window, request_timestamps,
                   call, started, passes, tripped, line, parsed, batch, collector>>

\* A cancelled test_proxy task runs: CancelledError is no Exception, so the
\* handler of line 391 does not catch it and nothing is marked.
ProbeCancelled(r) ==
    /\ probe[r] = "cancelling"
    /\ probe' = [probe EXCEPT ![r] = "cancelled"]
    /\ UNCHANGED <<now, session, cache, rate_limit, rate_window, request_timestamps,
                   pm, call, started, passes, tripped>>
    /\ UNCHANGED others

\* The cancelled loop runs once its probes are done: lines 427-428 break out
\* of it, the task is done and the calls that await it are woken.
LoopExit ==
    /\ pm.health_check_task = "cancelling"
    /\ \A r \in Relays : probe[r] \notin {"inflight", "cancelling"}
    /\ pm' = [pm EXCEPT !.health_check_task = "finished"]
    /\ probe' = [r \in Relays |-> "idle"]
    /\ stop' = [stop EXCEPT !.pc = [s \in Stoppers |->
                                      IF stop.pc[s] = "awaiting" THEN "woken"
                                      ELSE stop.pc[s]]]
    /\ UNCHANGED <<now, session, cache, rate_limit, rate_window, request_timestamps,
                   call, started, passes, tripped, line, parsed, batch, collector>>

\* Lines 440-444 after the await: the field is cleared, whatever task it
\* refers to by now.
StopReturn(s) ==
    /\ stop.pc[s] = "woken"
    /\ pm' = [pm EXCEPT !.health_check_task = None]
    /\ stop' = [stop EXCEPT !.pc[s] = "returned",
                            !.orphan = IF pm.health_check_task \in Live
                                       THEN pm.health_check_task ELSE @]
    /\ UNCHANGED <<now, session, cache, rate_limit, rate_window, request_timestamps,
                   probe, call, started, passes, tripped, line, parsed, batch, collector>>

\* __aenter__ of a client of the process, lines 38-40: it shares proxy_manager.
\* Followed until a loop task has lost its reference.
Enter ==
    /\ stop.enters < MaxEnters
    /\ stop.orphan = None
    /\ pm.proxy_fetch_task # "testing"
    /\ pm' = start_health_monitoring(ensure_proxies_loaded(pm))
    /\ stop' = [stop EXCEPT !.enters = @ + 1]
    /\ UNCHANGED <<now, session, cache, rate_limit, rate_window, request_timestamps,
                   probe, call, started, passes, tripped, line, parsed, batch, collector>>

\* health_check_loop of a task that the field no longer refers to: the same
\* lines as PassStart and PassEnd.
OrphanPassStart ==
    /\ stop.orphan = "sleep"
    /\ passes < MaxPasses
    /\ passes' = passes + 1
    /\ IF ~pm.use_proxies \/ Len(pm.proxies) = 0
       THEN UNCHANGED <<stop, probe>>
       ELSE /\ stop' = [stop EXCEPT !.orphan = "pass"]
            /\ probe' = [r \in Relays |->
                            IF r \in Range(pm.proxies) THEN "inflight" ELSE "idle"]
    /\ UNCHANGED <<now, session, cache, rate_limit, rate_window, request_timestamps,
                   pm, call, started, tripped, line, parsed, batch, collector>>

OrphanPassEnd ==
    /\ stop.orphan = "pass"
    /\ \A r \in Relays : probe[r] # "inflight"
    /\ LET g == get_current_proxy(pm)
       IN pm' = IF g.proxy # None /\ ~g.pm.is_healthy[g.proxy]
                THEN rotate_proxy(g.pm) ELSE g.pm
    /\ probe' = [r \in Relays |-> "idle"]
    /\ stop' = [stop EXCEPT !.orphan = "sleep"]
    /\ UNCHANGED <<now, session, cache, rate_limit, rate_window, request_timestamps,
                   call, started, passes, tripped, line, parsed, batch, collector>>

\* Clients that enter and leave while the monitor runs; the two relays are
\* configured statically.
InitStop == InitWith({TRUE}, {1}, {20}, {60})

NextStop ==
    \/ Enter
    \/ MonitorNext
    \/ \E s \in Stoppers : StopBegin(s) \/ StopReturn(s)
    \/ \E r \in Relays : ProbeCancelled(r)
    \/ LoopExit
    \/ OrphanPassStart
    \/ OrphanPassEnd

SpecStop == InitStop /\ [][NextStop]_vars

\* C21: when a stop_health_monitoring call returns, the loop task and every
\* probe of its pass have finished and no monitor task exists; a probe result
\* is only ever recorded for a pass of the task that the manager refers to, so
\* none is recorded after the stop.
C21_StopAwaitsMonitor ==
    /\ [][\A s \in Stoppers :
            (stop.pc[s] # "returned" /\ stop'.pc[s] = "returned") =>
               /\ pm'.health_check_task = None
               /\ stop'.orphan = None
               /\ \A r \in Relays : probe'[r] \notin {"inflight", "cancelling"}]_vars
    /\ [][(\E r \in Relays : probe[r] = "inflight" /\ probe'[r] \in {"passed", "failed"})
            => pm.health_check_task = "pass"]_vars

----------------------------------------------------------------------------
(* Claims about the membership of the pool *)

\* The pool under everything that touches it: the fetch of a relay source with
\* or without the bulk filter, add_proxy and remove_proxy of r2, one caller whose
\* attempts end in the relay status 403, and the health pass with probes that
\* pass or fail.
InitPool == InitFrom({TRUE}, {1}, {20}, {60}, {<<>>, <<"r1", "r2">>})

NextPool ==
    \/ \E fetched \in RelayLists, health_check \in BOOLEAN :
          FetchProxies(fetched, health_check)
    \/ \E is_working \in BOOLEAN : FilterProbe(is_working)
    \/ FilterEnd
    \/ AEnter
    \/ AddProxy("r2")
    \/ RemoveProxy("r2")
    \/ Begin("c1", Key1, MaxCallsPool)
    \/ Respond("c1", "403", OkBody)
    \/ MonitorNext

SpecPool == InitPool /\ [][NextPool]_vars

\* C22: the set of relays of the pool changes only in a step of the source
\* fetch, of the bulk filter's end, of add_proxy or of remove_proxy; the
\* failure and success reports, rotation, selection and the probes of a health
\* pass leave the list as it is, whatever the relays' health.
C22_PoolMembershipFrame ==
    /\ [][Range(pm'.proxies) # Range(pm.proxies) =>
            \/ \E fetched \in RelayLists, health_check \in BOOLEAN :
                  FetchProxies(fetched, health_check)
            \/ FilterEnd
            \/ \E r \in Relays : AddProxy(r) \/ RemoveProxy(r)]_vars
    /\ [](\A r \in Relays :
            /\ mark_proxy_failed(pm, r).proxies = pm.proxies
            /\ mark_proxy_success(pm, r).proxies = pm.proxies
            /\ test_proxy(pm, r, TRUE).proxies = pm.proxies
            /\ test_proxy(pm, r, FALSE).proxies = pm.proxies
            /\ rotate_proxy(pm).proxies = pm.proxies
            /\ get_current_proxy(pm).pm.proxies = pm.proxies)

\* A relay that the failure threshold marked unhealthy is still in the pool
\* after a health pass has run to its end.
C22_Witness ==
    /\ \E r \in Range(pm.proxies) : tripped[r] /\ ~pm.is_healthy[r]
    /\ passes >= 1
    /\ pm.health_check_task = "sleep"

----------------------------------------------------------------------------
(* The pool's operations on their own, over three relays *)

PoolRelays == Relays \cup {"r3"}

\* mark_proxy_success with the response time of line 359, which the
\* dispatcher's frames do not carry.
mark_proxy_success_timed(p, r, response_time) ==
    [mark_proxy_success(p, r) EXCEPT !.response_time[r] = response_time]

\* A manager with three static relays, all healthy as ProxyInfo creates them.
InitOps ==
    /\ now = 0
    /\ session = None
    /\ cache = [k \in Keys |-> NoEntry]
    /\ rate_limit = 20
    /\ rate_window = 60
    /\ request_timestamps = <<>>
    /\ \E order \in Perms(PoolRelays) :
         pm = [proxies |-> order,
               current_proxy_index |-> 0,
               use_proxies |-> TRUE,
               is_healthy |-> [r \in PoolRelays |-> TRUE],
               failure_count |-> [r \in PoolRelays |-> 0],
               success_count |-> [r \in PoolRelays |-> 0],
               response_time |-> [r \in PoolRelays |-> 0]]
    /\ probe = [r \in Relays |-> "idle"]
    /\ call = [c \in Callers |-> IdleCall]
    /\ started = 0
    /\ passes = 0
    /\ tripped = [r \in Relays |-> FALSE]
    /\ line = <<>>
    /\ parsed = NoProxy
    /\ batch = IdleBatch
    /\ stop = IdleStop
    /\ collector = IdleCollector

\* One operation of the pool is applied.
Op(q) ==
    /\ pm' = q
    /\ UNCHANGED <<now, session, cache, rate_limit, rate_window, request_timestamps,
                   probe, call, started, passes, tripped>>
    /\ UNCHANGED others

OpFailed(r) ==
    /\ pm.failure_count[r] < MaxFailureCount
    /\ Op(mark_proxy_failed(pm, r))

OpSuccess(r) ==
    /\ pm.success_count[r] < MaxSuccessCount
    /\ Op(mark_proxy_success_timed(pm, r, 1))

OpRotate == Op(rotate_proxy(pm))

OpCurrent == Op(get_current_proxy(pm).pm)

OpRemove(r) ==
    /\ r \in Range(pm.proxies)
    /\ Op(remove_proxy(pm, r))

\* The test_proxy tasks of one gather finish in the order `order`, relay r with
\* the result ok[r]: lines 383-395 for each of them.
RECURSIVE run_probes(_, _, _)
run_probes(p, order, ok) ==
    IF Len(order) = 0 THEN p
    ELSE run_probes(test_proxy(p, Head(order), ok[Head(order)]), Tail(order), ok)

\* health_check_all_proxies, lines 399-415, when nothing else runs between its
\* probes.
health_check_all_proxies(p, order, ok) ==
    IF ~p.use_proxies \/ Len(p.proxies) = 0 THEN p
    ELSE LET p1 == run_probes(p, order, ok)
             g == get_current_proxy(p1)
         IN IF g.proxy # None /\ ~g.pm.is_healthy[g.proxy]
            THEN rotate_proxy(g.pm) ELSE g.pm

\* One pass of the health monitor over the pool.
OpPass ==
    /\ passes < MaxPasses
    /\ passes' = passes + 1
    /\ \E order \in shuffles(pm.proxies), ok \in [PoolRelays -> BOOLEAN] :
          pm' = health_check_all_proxies(pm, order, ok)
    /\ UNCHANGED <<now, session, cache, rate_limit, rate_window, request_timestamps,
                   probe, call, started, tripped>>
    /\ UNCHANGED others

NextOps ==
    \/ \E r \in PoolRelays : OpFailed(r) \/ OpSuccess(r) \/ OpRemove(r)
    \/ OpRotate
    \/ OpCurrent

SpecOps == InitOps /\ [][NextOps]_vars

\* C23: in every pool state and for every relay, mark_proxy_failed adds exactly
\* 1 to that relay's failure count and touches no other counter; when the new
\* count has reached max_failures the relay becomes unhealthy and the index is
\* rotated once over the relays that remain healthy (it stays where it is when
\* at most one remains); below the threshold the healthy flags and the index
\* are as before.
C23_ReportFailure ==
    \A r \in PoolRelays :
        LET q == mark_proxy_failed(pm, r)
            n == pm.failure_count[r] + 1
            h == Len(healthy_proxies(q))
            i == (pm.current_proxy_index + 1) % h
        IN /\ q.failure_count = [pm.failure_count EXCEPT ![r] = n]
           /\ q.success_count = pm.success_count
           /\ q.proxies = pm.proxies
           /\ n >= max_failures =>
                 /\ q.is_healthy = [pm.is_healthy EXCEPT ![r] = FALSE]
                 /\ q.current_proxy_index =
                       IF h <= 1 THEN pm.current_proxy_index ELSE i
           /\ n < max_failures =>
                 /\ q.is_healthy = pm.is_healthy
                 /\ q.current_proxy_index = pm.current_proxy_index

\* One relay has reached the threshold, the other two are healthy and the
\* index has moved on from 0 to 1.
C23_Witness ==
    /\ Len(pm.proxies) = 3
    /\ \E r \in PoolRelays :
          /\ ~pm.is_healthy[r] /\ pm.failure_count[r] = max_failures
          /\ \A x \in PoolRelays \ {r} : pm.is_healthy[x] /\ pm.failure_count[x] = 0
    /\ \A x \in PoolRelays : pm.success_count[x] = 0
    /\ pm.current_proxy_index = 1

----------------------------------------------------------------------------
(* Claims about the rate limiter's arithmetic (checked under SpecRate) *)

\* C25: for every limit L > 0, _check_rate_limit applied to the recorded window
\* keeps the timestamps less than rate_window seconds old, returns 0 when fewer
\* than L are kept, and otherwise rate_window - (now - oldest kept), which is
\* positive and at most rate_window; a call that is told to sleep appends no
\* timestamp then, and appends the time of its wake-up, not earlier than
\* the check plus the sleep time, when its sleep is over.
C25_WaitArithmetic ==
    /\ [](\A L \in 1..MaxLimit :
            LET r == check_rate_limit(request_timestamps, now, L, rate_window)
                kept == SelectSeq(request_timestamps, LAMBDA x : now - x < rate_window)
            IN /\ r.request_timestamps = kept
               /\ Len(kept) < L => r.sleep_time = 0
               /\ Len(kept) >= L =>
                     /\ \E x \in Range(kept) :
                           /\ \A y \in Range(kept) : x <= y
                           /\ r.sleep_time = rate_window - (now - x)
                     /\ r.sleep_time > 0
                     /\ r.sleep_time <= rate_window)
    /\ [][\A c \in Callers :
             /\ (call[c].pc # "rate_sleep" /\ call'[c].pc = "rate_sleep") =>
                   /\ call'[c].slept =
                         check_rate_limit(request_timestamps, now,
                                          rate_limit, rate_window).sleep_time
                   /\ call'[c].slept > 0
                   /\ call'[c].wake = now + call'[c].slept
                   /\ request_timestamps' =
                         SelectSeq(request_timestamps, LAMBDA x : now - x < rate_window)
             /\ (call[c].pc = "rate_sleep" /\ call'[c].pc # "rate_sleep") =>
                   /\ now >= call[c].wake
                   /\ call'[c].sent = 1
                   /\ request_timestamps' = Append(request_timestamps, now)]_vars

\* A call found the window full one second after the request in it, slept the
\* remaining second and recorded its own request at its wake-up.
C25_Witness ==
    \E c \in Callers :
        /\ call[c].slept = rate_window - 1
        /\ call[c].pc = "inflight"
        /\ call[c].sent = 1
        /\ Len(request_timestamps) > 0
        /\ request_timestamps[Len(request_timestamps)] = call[c].wake
        /\ now = call[c].wake

\* C26: a timestamp is appended to request_timestamps only in a step in which
\* the call has just passed _check_rate_limit for the attempt it sends (at once,
\* or at the end of the sleep the limiter gave it), and then exactly one: an
\* attempt is never sent, and its timestamp never recorded, from inside the
\* retry loop without a check of its own.
C26_TimestampOnlyOnAdmission ==
    [][\A c \in Callers :
          LET sends == /\ call'[c].pc = "inflight"
                       /\ (call[c].pc # "inflight" \/ call'[c].attempt # call[c].attempt)
          IN /\ sends => call[c].pc \in {"idle", "done", "wait_sem", "rate_sleep"}
             /\ sends => \/ request_timestamps' = Append(request_timestamps, now)
                         \/ request_timestamps' =
                               Append(SelectSeq(request_timestamps,
                                                LAMBDA x : now - x < rate_window), now)]_vars

----------------------------------------------------------------------------
(* Claims about the selection (checked under SpecPool) *)

\* C27: with relays enabled, get_current_proxy returns a relay exactly when
\* some relay of the pool is healthy, and what it returns is a healthy relay of
\* the pool; the first attempt of a call goes through the relay it returns and
\* goes direct when it returns None.
C27_CurrentIffHealthy ==
    /\ [](pm.use_proxies =>
            LET g == get_current_proxy(pm).proxy IN
            /\ g # None <=> \E r \in Range(pm.proxies) : pm.is_healthy[r]
            /\ g # None => g \in Range(pm.proxies) /\ pm.is_healthy[g])
    /\ [][\A c \in Callers :
             (pm.use_proxies /\ call[c].pc # "inflight" /\ call'[c].pc = "inflight")
                => call'[c].current_proxy = get_current_proxy(pm).proxy]_vars

\* Relays are enabled and the pool is not empty, but no relay in it is healthy:
\* an attempt is in flight without a relay.
C27_Witness ==
    /\ pm.use_proxies
    /\ Len(pm.proxies) > 0
    /\ \A r \in Range(pm.proxies) : ~pm.is_healthy[r]
    /\ get_current_proxy(pm).proxy = None
    /\ \E c \in Callers : call[c].pc = "inflight" /\ call[c].current_proxy = None

----------------------------------------------------------------------------
(* Claims about the health pass over three relays *)

\* Failure reports and rotations of the traffic, and health passes.
NextPass ==
    \/ \E r \in PoolRelays : OpFailed(r)
    \/ OpRotate
    \/ OpPass

SpecPass == InitOps /\ [][NextPass]_vars

\* C28: when the relay that get_current_proxy returned before a health pass is
\* still healthy after the pass, get_current_proxy returns the same relay after
\* it, whatever the probes of the other relays gave.
C28_PassKeepsSelection ==
    [][passes' = passes + 1 =>
         LET before == get_current_proxy(pm).proxy
             after == get_current_proxy(pm').proxy
         IN (before # None /\ pm'.is_healthy[before]) => after = before]_vars

----------------------------------------------------------------------------
(* Claims about the rotation *)

\* The relays that get_current_proxy returns after each of k successive
\* rotate_proxy calls.
RECURSIVE visited(_, _)
visited(p, k) ==
    IF k = 0 THEN <<>>
    ELSE LET g == get_current_proxy(rotate_proxy(p))
         IN <<g.proxy>> \o visited(g.pm, k - 1)

\* C29: in every pool state with n >= 2 healthy relays, a rotate_proxy call
\* after a get_current_proxy call makes the next get_current_proxy call return
\* another relay, and n rotations in a row return every healthy relay once,
\* the last of them being the relay that was returned before the first.
C29_RotationCycle ==
    LET h == healthy_proxies(pm)
        n == Len(h)
        g == get_current_proxy(pm)
        v == visited(g.pm, n)
    IN (pm.use_proxies /\ n >= 2) =>
          /\ v[1] # g.proxy
          /\ \A i \in 1..(n - 1) : v[i + 1] # v[i]
          /\ Range(v) = Range(h)
          /\ v[n] = g.proxy

\* Three healthy relays, and the index has been rotated to the last of them.
C29_Witness ==
    /\ Len(healthy_proxies(pm)) = 3
    /\ pm.current_proxy_index = 2
    /\ get_current_proxy(pm).proxy = pm.proxies[3]

\* C30: when a call retries after a failure of its relay and at least two
\* relays are healthy, the retry goes through another relay than the one that
\* has just failed, whatever the other callers and the monitor do in between.
C30_RetryOnOtherRelay ==
    [][\A c \in Callers :
          (/\ call[c].pc = "inflight"
           /\ call'[c].pc = "inflight"
           /\ call'[c].attempt = call[c].attempt + 1
           /\ call[c].current_proxy # None
           /\ Len(healthy_proxies(pm')) >= 2)
             => call'[c].current_proxy # call[c].current_proxy]_vars

----------------------------------------------------------------------------
(* Claims about the bulk filter (checked under SpecLoad) *)

\* C31: the bulk filter probes the relays of the list one after the other (each
\* of its steps finishes the probe of the next relay in list order and touches
\* no other relay), and when it ends the relays it keeps are exactly those
\* whose probe passed, in the order they had in the list, each healthy with a
\* failure count of 0; the relays whose probe failed are not in the pool.
C31_BulkFilter ==
    /\ [](pm.proxy_fetch_task = "testing" =>
            /\ pm.tested <= Len(pm.proxies)
            /\ pm.working_proxies =
                  SelectSeq(SubSeq(pm.proxies, 1, pm.tested),
                            LAMBDA r : pm.is_healthy[r])
            /\ \A r \in Range(pm.working_proxies) : pm.failure_count[r] = 0)
    /\ [][(pm.proxy_fetch_task = "testing" /\ pm'.proxy_fetch_task = "testing"
            /\ pm' # pm) =>
            /\ pm'.tested = pm.tested + 1
            /\ pm'.proxies = pm.proxies
            /\ \A r \in Relays \ {pm.proxies[pm.tested + 1]} :
                  /\ pm'.is_healthy[r] = pm.is_healthy[r]
                  /\ pm'.failure_count[r] = pm.failure_count[r]
                  /\ pm'.success_count[r] = pm.success_count[r]]_vars
    /\ [][(pm.proxy_fetch_task = "testing" /\ pm'.proxy_fetch_task = "done") =>
            /\ pm.tested = Len(pm.proxies)
            /\ Range(pm'.proxies) = {r \in Range(pm.proxies) : pm.is_healthy[r]}
            /\ Len(pm'.proxies) = Cardinality(Range(pm'.proxies))
            /\ \A r \in Range(pm'.proxies) :
                  pm'.is_healthy[r] /\ pm'.failure_count[r] = 0
            /\ \A r \in Range(pm.proxies) \ Range(pm'.proxies) :
                  ~pm'.is_healthy[r] /\ pm'.failure_count[r] >= 1]_vars

\* The filter has ended on a list of two relays: the probe of one failed and it
\* is gone from the pool, the other passed and is the pool.
C31_Witness ==
    /\ pm.proxy_fetch_task = "done"
    /\ Len(pm.proxies) = 1
    /\ pm.is_healthy[pm.proxies[1]]
    /\ pm.success_count[pm.proxies[1]] = 1
    /\ \E r \in Relays \ Range(pm.proxies) :
          ~pm.is_healthy[r] /\ pm.failure_count[r] = 1

\* No client has a session, no monitor task exists, no pass has begun and no
\* call has selected a relay or sent an attempt.
NothingBegun ==
    /\ session = None
    /\ pm.health_check_task = None
    /\ passes = 0
    /\ \A r \in Relays : probe[r] = "idle"
    /\ \A c \in Callers : call[c].pc \in {"idle", "done"} /\ call[c].sent = 0

\* C32: while the bulk filter runs, and in the step in which it replaces the
\* relay list, no client has a session yet, so no call is between its relay
\* selection and its return and no health pass is running: the filter is over
\* before any selection, rotation or pass begins.
C32_FilterBeforeTraffic ==
    /\ [](pm.proxy_fetch_task = "testing" => NothingBegun)
    /\ [][(pm.proxy_fetch_task = "testing" /\ pm'.proxy_fetch_task = "done")
             => NothingBegun]_vars

\* The filter has replaced the list (one relay passed, one failed and is gone)
\* and afterwards an attempt went out through the relay that was kept.
C32_Witness ==
    /\ pm.proxy_fetch_task = "done"
    /\ session = "open"
    /\ \E c \in Callers, r \in Relays :
          /\ call[c].pc = "inflight"
          /\ call[c].current_proxy = r
          /\ pm.success_count[r] = 1
          /\ pm.proxies = <<r>>
    /\ \E x \in Relays \ Range(pm.proxies) : ~pm.is_healthy[x]

----------------------------------------------------------------------------
(* Claims about the cache *)

\* C33: a call for a key that begins at the very moment at which a successful
\* payload was stored for that key is a cache hit and returns that payload,
\* however long the call that stored it had been running.
C33_AgeFromStore ==
    [][(started' = started + 1 /\ cache[Key1] # NoEntry /\ now = cache[Key1].stored)
          => /\ call'["c1"].pc = "done"
             /\ call'["c1"].ret = [kind |-> "data", data |-> cache[Key1].data,
                                   wait_time |-> 0]]_vars

\* Calls for one key without relays, the second and third possibly after the
\* entry of the first has expired; attempts end in a 200 with any payload, in
\* the status 500 or in a timeout.
InitMiss == InitWith({FALSE}, {1}, {20}, {60})

NextMiss ==
    \/ AEnter
    \/ Begin("c1", Key1, MaxCallsMiss)
    \/ \E o \in {"200", "500", "TimeoutError"}, body \in Payloads :
          Respond("c1", o, body)
    \/ Tick(cache_ttl, cache_ttl)

SpecMiss == InitMiss /\ [][NextMiss]_vars

\* C34: a call that returns without a payload leaves the cache exactly as it
\* was; the cache changes only in the step in which a call returns a payload,
\* which is then the entry of the call's key; every entry of the cache holds a
\* payload that reports success.
C34_AbsentLeavesCache ==
    /\ [](\A k \in Keys : cache[k] # NoEntry => cache[k].data.success)
    /\ [][\A c \in Callers :
             (call[c].pc # "done" /\ call'[c].pc = "done"
              /\ call'[c].ret.kind # "data") => cache' = cache]_vars
    /\ [][cache' # cache =>
             \E c \in Callers :
                /\ call[c].pc # "done" /\ call'[c].pc = "done"
                /\ call'[c].ret.kind = "data"
                /\ cache'[call[c].key].data = call'[c].ret.data
                /\ \A k \in Keys \ {call[c].key} : cache'[k] = cache[k]]_vars

\* A call that went to the network because the entry of its key had expired
\* has returned without a payload, and the expired entry is still there.
C34_Witness ==
    /\ cache[Key1] # NoEntry
    /\ call["c1"].pc = "done"
    /\ call["c1"].ret.kind = "absent"
    /\ call["c1"].sent = 1
    /\ call["c1"].now0 - cache[Key1].timestamp >= cache_ttl

----------------------------------------------------------------------------
(* Claims about the returned wait *)

\* One caller under a limit of one request per 5 s, with and without relays:
\* a call may sleep on the rate limiter, retry after a 429 through a relay and
\* back off after a 429 that ends the call.
InitWait == InitWith({TRUE, FALSE}, {1}, {1}, {5})

NextWait ==
    \/ AEnter
    \/ Begin("c1", Key1, MaxCallsWait)
    \/ RateWake("c1")
    \/ \E o \in {"200", "429"}, body \in Payloads : Respond("c1", o, body)
    \/ BackoffWake("c1")
    \/ Tick(backoff_time, MaxTimeWait)

SpecWait == InitWait /\ [][NextWait]_vars

\* C35: the wait a call returns with its payload or its absent result is the
\* sleep the rate limiter ordered for it (0 if it ordered none) plus the backoff
\* delay if the call returns from a backoff sleep, and that much time has
\* passed since the call began; a call answered from the cache returns 0.
C35_ReturnedWait ==
    [][\A c \in Callers :
          ((call[c].pc # "done" \/ started' # started) /\ call'[c].pc = "done"
           /\ call'[c].ret.kind \in {"data", "absent"})
          => /\ call'[c].ret.wait_time =
                   IF started' # started THEN 0
                   ELSE call[c].slept
                        + (IF call[c].pc = "backoff" THEN backoff_time ELSE 0)
             /\ call'[c].ret.wait_time <= now - call'[c].now0
             /\ (started' # started /\ cache_hit(cache, call'[c].key, now))
                   => call'[c].ret.wait_time = 0]_vars

\* A call slept 5 s on the rate limiter, then backed off 5 s after a 429 sent
\* directly, and returned a wait of 10 s.
C35_Witness ==
    /\ call["c1"].pc = "done"
    /\ call["c1"].slept = 5
    /\ Len(call["c1"].hist) > 0
    /\ call["c1"].hist[Len(call["c1"].hist)].outcome = "429"
    /\ call["c1"].ret = [kind |-> "absent", data |-> NoData, wait_time |-> 10]

----------------------------------------------------------------------------
(* Claims about the relay of each attempt (checked under SpecPool) *)

\* C36: in the step in which an attempt of a call is sent, the first attempt
\* or a retry, the relay it is sent through is a healthy relay of the pool and
\* relays are enabled; when the pool holds no healthy relay in that step the
\* attempt is sent directly.
C36_AttemptRelayHealthy ==
    [][\A c \in Callers :
          (call'[c].pc = "inflight"
           /\ (call[c].pc # "inflight" \/ call'[c].sent # call[c].sent))
          => LET r == call'[c].current_proxy IN
             /\ r # None => /\ pm'.use_proxies
                            /\ r \in Range(pm'.proxies)
                            /\ pm'.is_healthy[r]
             /\ (\A q \in Range(pm'.proxies) : ~pm'.is_healthy[q]) => r = None]_vars

\* A retry is in flight directly: the attempt before it went through a relay,
\* whose failure left the pool without a healthy relay.
C36_Witness ==
    /\ call["c1"].pc = "inflight"
    /\ call["c1"].attempt >= 1
    /\ call["c1"].hist[call["c1"].attempt].proxy # None
    /\ call["c1"].current_proxy = None
    /\ Len(pm.proxies) > 0

----------------------------------------------------------------------------
(* Two clients of the process that enter and leave, sharing proxy_manager *)

\* __aenter__ of client s, lines 38-58: the monitor is started if the manager
\* refers to no task, then the session is created.
ClientEnter(s) ==
    /\ stop.open[s] = "new"
    /\ pm.proxy_fetch_task # "testing"
    /\ pm' = start_health_monitoring(ensure_proxies_loaded(pm))
    /\ stop' = [stop EXCEPT !.open[s] = "open"]
    /\ UNCHANGED <<now, session, cache, rate_limit, rate_window, request_timestamps,
                   probe, call, started, passes, tripped, line, parsed, batch, collector>>

\* __aexit__ of client s, lines 61-62: await self.session.close().
ClientClose(s) ==
    /\ stop.open[s] = "open"
    /\ stop' = [stop EXCEPT !.open[s] = "closed"]
    /\ UNCHANGED <<now, session, cache, rate_limit, rate_window, request_timestamps,
                   pm, probe, call, started, passes, tripped, line, parsed, batch, collector>>

\* __aexit__ of client s, line 64: await proxy_manager.stop_health_monitoring().
ClientStop(s) == stop.open[s] = "closed" /\ StopBegin(s)

InitClients == InitWith({TRUE}, {1}, {20}, {60})

NextClients ==
    \/ \E s \in Stoppers : ClientEnter(s) \/ ClientClose(s) \/ ClientStop(s) \/ StopReturn(s)
    \/ MonitorNext
    \/ \E r \in Relays : ProbeCancelled(r)
    \/ LoopExit

SpecClients == InitClients /\ [][NextClients]_vars

\* C37: while the session of some client is open and relays are enabled, the
\* health monitor loop runs: the manager refers to a loop task that sleeps or
\* runs a pass (a task whose cancellation is pending counts as running here,
\* and so does a loop the manager no longer refers to).
C37_MonitorWhileOpen ==
    (pm.use_proxies /\ \E s \in Stoppers : stop.open[s] = "open")
       => \/ pm.health_check_task \in Live \cup {"cancelling"}
          \/ stop.orphan \in Live

----------------------------------------------------------------------------
(* Calls of start_health_monitoring and stop_health_monitoring in any order *)

\* A call of start_health_monitoring, from __aenter__ of any client.
Start ==
    /\ stop.enters < MaxStarts
    /\ pm' = start_health_monitoring(pm)
    /\ stop' = [stop EXCEPT !.enters = @ + 1]
    /\ UNCHANGED <<now, session, cache, rate_limit, rate_window, request_timestamps,
                   probe, call, started, passes, tripped, line, parsed, batch, collector>>

NextStarts ==
    \/ Start
    \/ MonitorNext
    \/ \E s \in Stoppers : StopBegin(s) \/ StopReturn(s)
    \/ \E r \in Relays : ProbeCancelled(r)
    \/ LoopExit
    \/ OrphanPassStart
    \/ OrphanPassEnd

SpecStarts == InitStop /\ [][NextStarts]_vars

\* C38: at most one health monitor loop exists in any state: never a loop the
\* manager refers to together with a loop it no longer refers to; and a call
\* of start_health_monitoring changes nothing when the manager refers to a
\* task or relays are disabled.
C38_AtMostOneLoop ==
    /\ [](~(pm.health_check_task \in Live \cup {"cancelling"} /\ stop.orphan \in Live))
    /\ [][(stop'.enters # stop.enters
           /\ (pm.health_check_task # None \/ ~pm.use_proxies)) => pm' = pm]_vars

----------------------------------------------------------------------------
(* Claims about the end of the load (checked under SpecLoad) *)

\* C39: in the step in which a client's entry completes ensure_proxies_loaded,
\* and in every state after it, relays are enabled only if the pool is not
\* empty; with an empty pool relays are switched off and get_current_proxy
\* returns None; every attempt sent while relays are off goes direct, by a call
\* that holds no concurrency slot and took none.
C39_EnabledImpliesPool ==
    /\ [](session # None => (pm.use_proxies => Len(pm.proxies) > 0))
    /\ [][(session = None /\ session' # None) =>
            /\ pm'.proxy_fetch_task = "done"
            /\ pm'.use_proxies => Len(pm'.proxies) > 0
            /\ Len(pm'.proxies) = 0 =>
                  ~pm'.use_proxies /\ get_current_proxy(pm').proxy = None]_vars
    /\ [][\A c \in Callers :
            (~pm.use_proxies /\ call'[c].pc = "inflight"
             /\ (call[c].pc # "inflight" \/ call'[c].sent # call[c].sent))
            => /\ call'[c].current_proxy = None
               /\ ~call'[c].semaphore
               /\ call'[c].acq = 0
               /\ pm'.sem = pm.sem]_vars

\* Relays were enabled, the source listed one relay and the filter removed it:
\* relays are off after the entry, and a request is in flight directly without
\* a slot.
C39_Witness ==
    /\ session # None
    /\ pm.proxy_fetch_task = "done"
    /\ \E r \in Relays : ~pm.is_healthy[r] /\ pm.failure_count[r] = 1
    /\ Len(pm.proxies) = 0
    /\ ~pm.use_proxies
    /\ call["c1"].pc = "inflight"
    /\ call["c1"].current_proxy = None
    /\ call["c1"].acq = 0
    /\ pm.sem = pm.max_concurrent_requests

----------------------------------------------------------------------------
(* PriceCollector.collect_price_for_variant, run by caller "c1" *)

\* The values that line 183 may bind to price_data, by Python type.
PyTuple(items) == [type |-> "tuple", items |-> items, dict |-> NoData]
PyDict(d) == [type |-> "dict", items |-> <<>>, dict |-> d]
PyNone == [type |-> "NoneType", items |-> <<>>, dict |-> NoData]

\* bool(x): None and empty containers are false.
truthy(x) ==
    CASE x.type = "NoneType" -> FALSE
      [] x.type = "tuple" -> Len(x.items) > 0
      [] OTHER -> TRUE

\* x.get exists on a dict only; on a tuple the attribute lookup raises
\* AttributeError.
has_get(x) == x.type = "dict"

\* Lines 187-205: the lowest price, or the median price when it is 0; a
\* payload without a median price has the default "$0.00".
final_price(d) == IF d.lowest_price > 0 THEN d.lowest_price ELSE 0

count_failed(col) ==
    [col EXCEPT !.pc = "returned", !.result = NoRecord,
                !.stats.failed_requests = @ + 1]

\* Lines 183-225 on what `await self.steam_client.get_item_price(...)` came
\* back with.  get_item_price returns the pair (data, wait_time), and line 183
\* binds the pair itself to price_data.
after_fetch(col, ret) ==
    LET c1 == [col EXCEPT !.got = ret.kind] IN
    IF ret.kind \notin {"data", "absent"}
    THEN \* an exception left get_item_price: lines 222-225
         count_failed(c1)
    ELSE LET price_data ==
                 PyTuple(<<IF ret.kind = "data" THEN PyDict(ret.data) ELSE PyNone,
                           ret.wait_time>>)
         IN IF truthy(price_data)
            THEN IF ~has_get(price_data)
                 THEN \* AttributeError at line 185, caught at line 222
                      count_failed(c1)
                 ELSE IF price_data.dict.success
                 THEN [c1 EXCEPT !.pc = "returned",
                                 !.result = [usd |-> final_price(price_data.dict),
                                             raw_data |-> price_data.dict],
                                 !.stats.successful_requests = @ + 1]
                 ELSE count_failed(c1)
            ELSE count_failed(c1)

\* collect_price_for_variant is called: lines 177-183, up to the first
\* suspension of get_item_price.
CollectStart ==
    /\ collector.pc \in {"idle", "returned"}
    /\ get_item_price("c1", Key1, MaxCallsCollect)
    /\ collector' = [collector EXCEPT !.pc = "fetching", !.result = NoRecord,
                                      !.got = "none"]
    /\ UNCHANGED <<line, parsed, batch, stop>>

\* get_item_price has returned to collect_price_for_variant.
CollectFinish ==
    /\ collector.pc = "fetching"
    /\ call["c1"].pc = "done"
    /\ collector' = after_fetch(collector, call["c1"].ret)
    /\ UNCHANGED <<now, session, cache, rate_limit, rate_window, request_timestamps,
                   pm, probe, call, started, passes, tripped, line, parsed, batch, stop>>

\* A collector on an entered client without relays; attempts end in a 200 with
\* any payload, in the status 500 or in a timeout; entries of the cache expire.
InitCollect == InitWith({FALSE}, {1}, {20}, {60})

NextCollect ==
    \/ AEnter
    \/ CollectStart
    \/ \E o \in {"200", "500", "TimeoutError"}, body \in Payloads :
          Respond("c1", o, body)
    \/ CollectFinish
    \/ Tick(cache_ttl, cache_ttl)

SpecCollect == InitCollect /\ [][NextCollect]_vars

\* C40: when get_item_price has returned a payload that reports success,
\* collect_price_for_variant returns a price record with that payload as
\* raw_data and counts one successful request and no failed one; it returns
\* nothing and counts a failed request only when get_item_price came back
\* without a payload.
C40_RecordOnSuccess ==
    [][(collector.pc = "fetching" /\ collector'.pc = "returned") =>
          LET ret == call["c1"].ret IN
          /\ ret.kind = "data" =>
                /\ collector'.result # NoRecord
                /\ collector'.result.raw_data = ret.data
                /\ collector'.stats.successful_requests
                      = collector.stats.successful_requests + 1
                /\ collector'.stats.failed_requests = collector.stats.failed_requests
          /\ (collector'.result = NoRecord
              \/ collector'.stats.failed_requests # collector.stats.failed_requests)
                => ret.kind # "data"]_vars

====
